---------------------------- MODULE Spec2Model ----------------------------
(***************************************************************************)
(* Model of the options pricing engine of the prediction service           *)
(* (src/prediction-service/options_pricing.py) and of the HTTP services    *)
(* around it (advanced_app.py, app.py).                                    *)
(*                                                                         *)
(* The engine is a Python object whose methods are called by the HTTP      *)
(* layer.  A state of the model is the engine's field together with the    *)
(* last call made on it: the method called (op), its arguments (args) and  *)
(* what it returned or raised (result).  One action per method.  For a     *)
(* service the state has its module globals, the caches, and the clock as  *)
(* well; op is then the route handler, args the request and result the     *)
(* response.  Spec is the engine called directly; StrategySpec and         *)
(* CacheSpec are advanced_app.py, PredictSpec is app.py.                   *)
(*                                                                         *)
(* Numbers.  Python computes in binary floating point; the model computes  *)
(* in exact rational arithmetic on integers:                               *)
(*   - prices of the strategy analyzer (spot, strike, premium, payoff) are *)
(*     counted in ticks of 1/330 dollar, the unit in which the 100 points  *)
(*     of np.linspace(0.7 c, 1.3 c, 100) are whole numbers for a whole     *)
(*     dollar price c (the step is 0.6 c / 99 = 2 c / 330);                *)
(*   - values rounded by round(x, 2) are counted in cents;                 *)
(*   - the Black-Scholes kernel is computed in fixed point, four decimal   *)
(*     places (units of 1/FP), prices in cents.                            *)
(***************************************************************************)
EXTENDS Integers, Sequences, FiniteSets, TLC

VARIABLES
    risk_free_rate,       \* the engine's field self.risk_free_rate
    STRATEGY_TEMPLATES,   \* the module's dictionary of strategy templates
    op,                   \* the method being called, "idle" when none is
    args,                 \* the arguments of the call
    result,               \* what the call returned or raised
    calls,                \* the functions the call called on its way
    caller_legs,          \* the caller's list of legs, as the call leaves it
    options_cache,        \* the service's dictionary options_cache
    prediction_cache,     \* the service's dictionary prediction_cache
    now,                  \* time.time(), in seconds
    last_fresh,           \* history: per symbol, the chain last fetched with success
    last_analysis         \* history: the body of the analysis request last answered

(* The engine and what surrounds a call of it.                             *)
engine == <<risk_free_rate, STRATEGY_TEMPLATES, caller_legs>>

(* The globals of a service, the clock, and the history kept of them.      *)
service == <<options_cache, prediction_cache, now, last_fresh, last_analysis>>

vars == <<risk_free_rate, STRATEGY_TEMPLATES, op, args, result, calls, caller_legs,
          options_cache, prediction_cache, now, last_fresh, last_analysis>>

-----------------------------------------------------------------------------
(* Arithmetic helpers.                                                     *)

Max(a, b) == IF a >= b THEN a ELSE b

Min(a, b) == IF a <= b THEN a ELSE b

Abs(a) == IF a >= 0 THEN a ELSE -a

(* The element of a one-element set.  A value that is costly to compute    *)
(* and used more than once is put through such a set, { e(x) : x \in {v} }, *)
(* which computes v once.                                                  *)
Only(S) == CHOOSE x \in S : TRUE

RECURSIVE Gcd(_, _)
Gcd(a, b) == IF b = 0 THEN Abs(a) ELSE Gcd(Abs(b), Abs(a) % Abs(b))

(* A plausible slip: the last sample is left out of the maximum.           *)
SeqMaxSkipsLast(s) ==
    LET V == {s[k] : k \in DOMAIN s \ {Len(s)}}
    IN  CHOOSE m \in V : \A v \in V : v <= m

(* The built-ins max() and min() over a non-empty list.                    *)
SeqMax(s) ==
    LET V == {s[k] : k \in DOMAIN s}
    IN  CHOOSE m \in V : \A v \in V : v <= m

SeqMin(s) ==
    LET V == {s[k] : k \in DOMAIN s}
    IN  CHOOSE m \in V : \A v \in V : v >= m

(* The integer nearest to n / d (d > 0), a tie going to the even integer,  *)
(* as Python's round does.                                                 *)
RoundHalfEven(n, d) ==
    LET q == n \div d
        r == n % d
    IN  IF 2 * r < d THEN q
        ELSE IF 2 * r > d THEN q + 1
        ELSE IF q % 2 = 0 THEN q ELSE q + 1

-----------------------------------------------------------------------------
(* Units of the strategy analyzer.                                         *)

TicksPerDollar == 330

CentsPerDollar == 100

Dollars(d) == d * TicksPerDollar

(* d tenths of a dollar, in ticks.                                         *)
Tenths(d) == d * (TicksPerDollar \div 10)

(* round(x, 2) of x = whole + num / den ticks (den > 0, 0 <= num / den),   *)
(* in cents.  One cent is 33/10 tick, so the cents are 10 x / 33.          *)
Round2(whole, num, den) ==
    LET X == 10 * num
        q == X \div den
        r == X % den
        Y == 10 * whole + q
        h == Y \div 33
        m == Y % 33
    IN  h + RoundHalfEven(m * den + r, 33 * den)

-----------------------------------------------------------------------------
(* What a call returns: a value, or the exception it raises.               *)

Returned(v) == [raised |-> "none", value |-> v]

Raised(e) == [raised |-> e, value |-> <<>>]

-----------------------------------------------------------------------------
(* The strategy analyzer.                                                  *)
(*                                                                         *)
(* A leg is a Python dict, here a record whose DOMAIN is the dict's keys:  *)
(* action, type, strike, premium and, optionally, contracts; the stock leg *)
(* of the templates has the keys action, type and shares only.  strike and *)
(* premium are in ticks.                                                   *)

ContractSize == 100

NumSamples == 100

(* leg['action'], leg['type'], leg['strike'], leg['premium']: a missing    *)
(* key raises KeyError.                                                    *)
LegKeyError(leg) == ~({"action", "type", "strike", "premium"} \subseteq DOMAIN leg)

(* leg.get('contracts', 1)                                                 *)
Contracts(leg) == IF "contracts" \in DOMAIN leg THEN leg.contracts ELSE 1

(* A plausible slip: a sell leg is valued like a buy leg.                  *)
LegPayoffSellAsBuy(leg, spot) ==
    LET intrinsic_value == IF leg.type = "call"
                              THEN Max(spot - leg.strike, 0)
                              ELSE Max(leg.strike - spot, 0)
    IN  (intrinsic_value - leg.premium) * Contracts(leg) * ContractSize

(* A plausible slip: the intrinsic value of a put is taken as a call's.    *)
LegPayoffPutAsCall(leg, spot) ==
    LET intrinsic_value == Max(spot - leg.strike, 0)
    IN  IF leg.action = "buy"
           THEN (intrinsic_value - leg.premium) * Contracts(leg) * ContractSize
           ELSE (leg.premium - intrinsic_value) * Contracts(leg) * ContractSize

(* The body of the loop over the legs: the P&L of one leg at one spot.     *)
LegPayoff(leg, spot) ==
    LET intrinsic_value == IF leg.type = "call"
                              THEN Max(spot - leg.strike, 0)
                              ELSE Max(leg.strike - spot, 0)
    IN  IF leg.action = "buy"
           THEN (intrinsic_value - leg.premium) * Contracts(leg) * ContractSize
           ELSE (leg.premium - intrinsic_value) * Contracts(leg) * ContractSize

(* total_payoff after the legs k..Len(legs) are added, in list order.      *)
RECURSIVE TotalPayoffFrom(_, _, _)
TotalPayoffFrom(legs, spot, k) ==
    IF k > Len(legs) THEN 0
    ELSE LegPayoff(legs[k], spot) + TotalPayoffFrom(legs, spot, k + 1)

(* calculate_strategy_payoff: one total per spot, in the order of the      *)
(* spots.  The legs are read inside the loop over the spots, so a leg      *)
(* without its keys raises only when there is a spot.                      *)
calculate_strategy_payoff(strategy_legs, spot_prices) ==
    IF spot_prices # <<>> /\ \E k \in 1..Len(strategy_legs) : LegKeyError(strategy_legs[k])
       THEN Raised("KeyError")
       ELSE Returned([j \in 1..Len(spot_prices) |->
                         TotalPayoffFrom(strategy_legs, spot_prices[j], 1)])

(* np.linspace(start, stop, num): start + i * (stop - start) / (num - 1).  *)
Linspace(start, stop, num) ==
    [i \in 1..num |-> start + ((i - 1) * (stop - start)) \div (num - 1)]

(* A plausible slip: only the crossing from loss to profit is recorded.    *)
CrossesUpward(payoffs, i) == payoffs[i] <= 0 /\ payoffs[i + 1] > 0

(* The two conditions under which a breakeven is recorded for the pair     *)
(* (i, i + 1).                                                             *)
Crosses(payoffs, i) ==
    \/ payoffs[i] <= 0 /\ payoffs[i + 1] > 0
    \/ payoffs[i] >= 0 /\ payoffs[i + 1] < 0

(* A plausible slip: the left sample is recorded, without interpolation.   *)
BreakevenLeftSample(spot_range, payoffs, i) == Round2(spot_range[i], 0, 1)

(* A plausible slip: the sign of payoffs[i] is lost in the interpolation,  *)
(* which then steps back from the left sample.                             *)
BreakevenWrongSign(spot_range, payoffs, i) ==
    LET dp  == payoffs[i + 1] - payoffs[i]
        sgn == IF dp > 0 THEN 1 ELSE -1
    IN  Round2(spot_range[i], (spot_range[i + 1] - spot_range[i]) * sgn * payoffs[i],
               sgn * dp)

(* spot_range[i] + (spot_range[i+1] - spot_range[i]) *                     *)
(*   (-payoffs[i] / (payoffs[i+1] - payoffs[i])), rounded to cents.  The   *)
(* quotient is kept as a fraction in lowest terms with a positive          *)
(* denominator.                                                            *)
Breakeven(spot_range, payoffs, i) ==
    LET dp  == payoffs[i + 1] - payoffs[i]
        g   == Gcd(payoffs[i], dp)
        sgn == IF dp > 0 THEN 1 ELSE -1
        a   == sgn * ((-payoffs[i]) \div g)
        b   == sgn * (dp \div g)
    IN  Round2(spot_range[i], (spot_range[i + 1] - spot_range[i]) * a, b)

(* The loop over the pairs (i, i + 1), left to right: the breakevens of    *)
(* the pairs in the set I, by increasing i.                                *)
RECURSIVE BreakevensOf(_, _, _)
BreakevensOf(spot_range, payoffs, I) ==
    IF I = {} THEN <<>>
    ELSE LET i == CHOOSE x \in I : \A y \in I : x <= y
         IN  <<Breakeven(spot_range, payoffs, i)>>
             \o BreakevensOf(spot_range, payoffs, I \ {i})

CrossingPairs(payoffs) == {i \in 1..(Len(payoffs) - 1) : Crosses(payoffs, i)}

(* A plausible slip: the number of contracts is left out of the sum.       *)
RECURSIVE NetPremiumPerContract(_, _)
NetPremiumPerContract(legs, k) ==
    IF k > Len(legs) THEN 0
    ELSE legs[k].premium * (IF legs[k].action = "sell" THEN 1 ELSE -1)
         + NetPremiumPerContract(legs, k + 1)

(* sum(leg['premium'] * leg.get('contracts', 1) *                          *)
(*     (1 if leg['action'] == 'sell' else -1) for leg in strategy_legs)    *)
RECURSIVE NetPremiumFrom(_, _)
NetPremiumFrom(legs, k) ==
    IF k > Len(legs) THEN 0
    ELSE legs[k].premium * Contracts(legs[k]) * (IF legs[k].action = "sell" THEN 1 ELSE -1)
         + NetPremiumFrom(legs, k + 1)

(* x < float('inf') and x > float('-inf'): true of every finite number,    *)
(* and the numbers of the model are all finite.                            *)
IsFinite(x) == x \in Int

(* maxProfit and maxLoss are a number (here in cents) or the string        *)
(* 'Unlimited'.                                                            *)
Number(c) == [kind |-> "number", cents |-> c]

Unlimited == [kind |-> "Unlimited"]

(* analyze_strategy.  spotRange and payoffs are in ticks, maxProfit,       *)
(* maxLoss, netPremium and the breakevens in cents.                        *)
analyze_strategy(strategy_legs, current_price) ==
    LET spot_range == Linspace((current_price * 7) \div 10, (current_price * 13) \div 10,
                               NumSamples)
        called     == calculate_strategy_payoff(strategy_legs, spot_range)
        payoffs    == called.value
        max_profit == SeqMax(payoffs)
        max_loss   == SeqMin(payoffs)
        breakevens == BreakevensOf(spot_range, payoffs, CrossingPairs(payoffs))
        net_premium == NetPremiumFrom(strategy_legs, 1)
    IN  IF called.raised # "none" THEN called
        ELSE Returned([maxProfit  |-> IF IsFinite(max_profit)
                                         THEN Number(Round2(max_profit, 0, 1)) ELSE Unlimited,
                       maxLoss    |-> IF IsFinite(max_loss)
                                         THEN Number(Round2(max_loss, 0, 1)) ELSE Unlimited,
                       breakevens |-> breakevens,
                       netPremium |-> Round2(net_premium, 0, 1),
                       spotRange  |-> spot_range,
                       payoffs    |-> payoffs])

-----------------------------------------------------------------------------
(* The pricing kernel, in fixed point.                                     *)
(*                                                                         *)
(* S and K are in cents; T (years), r, sigma, d1, d2 and the values of     *)
(* log, exp, sqrt and the normal distribution function are in units of     *)
(* 1/FP.  The library functions are computed to that resolution: log and   *)
(* exp by their power series, sqrt by bisection, norm.cdf from its table   *)
(* at steps of 0.1 with linear interpolation.                              *)

FP == 10000

Sign(a) == IF a < 0 THEN -1 ELSE 1

(* n / d to the nearest integer, halves away from zero (d > 0).            *)
DivRound(n, d) ==
    Sign(n) * ((Abs(n) \div d) + (IF 2 * (Abs(n) % d) >= d THEN 1 ELSE 0))

(* The product of a and b, b in units of 1/FP (b >= 0 or |a| < FP).  The   *)
(* whole multiples of FP in a are multiplied apart, which keeps the        *)
(* intermediate product small.                                             *)
MulFP(a, b) ==
    Sign(a) * ((Abs(a) \div FP) * b + DivRound((Abs(a) % FP) * b, FP))

(* The largest x in lo..hi with x * x <= n.                                *)
RECURSIVE SqrtBetween(_, _, _)
SqrtBetween(n, lo, hi) ==
    IF lo >= hi THEN lo
    ELSE LET mid == (lo + hi + 1) \div 2
         IN  IF mid * mid <= n THEN SqrtBetween(n, mid, hi)
                               ELSE SqrtBetween(n, lo, mid - 1)

(* np.sqrt(x), x >= 0.                                                     *)
SqrtFP(x) == SqrtBetween(x * FP, 0, 4 * FP)

(* np.log(S / K) = 2 atanh((S - K) / (S + K)).                             *)
LogRatioFP(S, K) ==
    LET z  == DivRound((S - K) * FP, S + K)
        z2 == MulFP(z, z)
        z3 == MulFP(z, z2)
        z5 == MulFP(z3, z2)
        z7 == MulFP(z5, z2)
        z9 == MulFP(z7, z2)
    IN  2 * (z + DivRound(z3, 3) + DivRound(z5, 5) + DivRound(z7, 7) + DivRound(z9, 9))

(* np.exp(y), for |y| <= 1.                                                *)
ExpFP(y) ==
    LET y2 == MulFP(y, y)
        y3 == MulFP(y2, y)
        y4 == MulFP(y3, y)
        y5 == MulFP(y4, y)
        y6 == MulFP(y5, y)
    IN  FP + y + DivRound(y2, 2) + DivRound(y3, 6) + DivRound(y4, 24)
           + DivRound(y5, 120) + DivRound(y6, 720)

(* norm.cdf at 0.0, 0.1, ..., 4.0.                                         *)
CdfTable ==
    <<5000, 5398, 5793, 6179, 6554, 6915, 7257, 7580,
      7881, 8159, 8413, 8643, 8849, 9032, 9192, 9332,
      9452, 9554, 9641, 9713, 9772, 9821, 9861, 9893,
      9918, 9938, 9953, 9965, 9974, 9981, 9987, 9990,
      9993, 9995, 9997, 9998, 9998, 9999, 9999, 10000,
      10000>>

(* norm.cdf(d)                                                             *)
RECURSIVE NormCdf(_)
NormCdf(d) ==
    IF d < 0 THEN FP - NormCdf(-d)
    ELSE IF d >= 4 * FP THEN FP
    ELSE LET i    == d \div (FP \div 10)
             frac == d % (FP \div 10)
         IN  CdfTable[i + 1]
             + DivRound((CdfTable[i + 2] - CdfTable[i + 1]) * frac, FP \div 10)

(* d1 = (np.log(S / K) + (r + 0.5 * sigma ** 2) * T) / (sigma * np.sqrt(T)) *)
D1(S, K, T, r, sigma) ==
    DivRound((LogRatioFP(S, K) + MulFP(r + DivRound(MulFP(sigma, sigma), 2), T)) * FP,
             MulFP(sigma, SqrtFP(T)))

(* d2 = d1 - sigma * np.sqrt(T)                                            *)
D2(S, K, T, r, sigma) == D1(S, K, T, r, sigma) - MulFP(sigma, SqrtFP(T))

(* K * np.exp(-r * T)                                                      *)
Discounted(K, T, r) == MulFP(K, ExpFP(-MulFP(r, T)))

(* A plausible slip: the expired branch discounts the strike.              *)
black_scholes_call_discounting(S, K, T, r, sigma) ==
    IF T <= 0
       THEN Max(S - Discounted(K, T, r), 0)
       ELSE Max(MulFP(S, NormCdf(D1(S, K, T, r, sigma)))
                - MulFP(Discounted(K, T, r), NormCdf(D2(S, K, T, r, sigma))), 0)

black_scholes_call(S, K, T, r, sigma) ==
    IF T <= 0
       THEN Max(S - K, 0)
       ELSE LET call_price == MulFP(S, NormCdf(D1(S, K, T, r, sigma)))
                              - MulFP(Discounted(K, T, r), NormCdf(D2(S, K, T, r, sigma)))
            IN  Max(call_price, 0)

(* A plausible slip: the strike of the put is not discounted.              *)
black_scholes_put_undiscounted(S, K, T, r, sigma) ==
    IF T <= 0
       THEN Max(K - S, 0)
       ELSE Max(MulFP(K, NormCdf(-D2(S, K, T, r, sigma)))
                - MulFP(S, NormCdf(-D1(S, K, T, r, sigma))), 0)

(* A plausible slip: the expired branch returns K - S without the floor.   *)
black_scholes_put_no_floor(S, K, T, r, sigma) ==
    IF T <= 0
       THEN K - S
       ELSE Max(MulFP(Discounted(K, T, r), NormCdf(-D2(S, K, T, r, sigma)))
                - MulFP(S, NormCdf(-D1(S, K, T, r, sigma))), 0)

black_scholes_put(S, K, T, r, sigma) ==
    IF T <= 0
       THEN Max(K - S, 0)
       ELSE LET put_price == MulFP(Discounted(K, T, r), NormCdf(-D2(S, K, T, r, sigma)))
                             - MulFP(S, NormCdf(-D1(S, K, T, r, sigma)))
            IN  Max(put_price, 0)

-----------------------------------------------------------------------------
(* The Greeks.  delta, gamma, theta, vega and rho are in units of 1/FP,    *)
(* the four decimals to which the code rounds them.                        *)

(* norm.pdf at 0.0, 0.1, ..., 4.0.                                         *)
PdfTable ==
    <<3989, 3970, 3910, 3814, 3683, 3521, 3332, 3123,
      2897, 2661, 2420, 2179, 1942, 1714, 1497, 1295,
      1109, 940, 790, 656, 540, 440, 355, 283,
      224, 175, 136, 104, 79, 60, 44, 33,
      24, 17, 12, 9, 6, 4, 3, 2,
      1>>

(* norm.pdf(d)                                                             *)
NormPdf(d) ==
    LET x == Abs(d)
    IN  IF x >= 4 * FP THEN 0
        ELSE LET i    == x \div (FP \div 10)
                 frac == x % (FP \div 10)
             IN  PdfTable[i + 1]
                 + DivRound((PdfTable[i + 2] - PdfTable[i + 1]) * frac, FP \div 10)

(* The Greeks of an option that has time left (T > 0).                     *)
LiveGreeks(S, K, T, r, sigma, option_type) ==
    LET d1     == D1(S, K, T, r, sigma)
        d2     == D2(S, K, T, r, sigma)
        sqrtT  == SqrtFP(T)
        delta  == IF option_type = "call" THEN NormCdf(d1) ELSE NormCdf(d1) - FP
        gamma  == DivRound(NormPdf(d1) * CentsPerDollar, MulFP(MulFP(S, sigma), sqrtT))
        common_theta == -DivRound(MulFP(MulFP(S, NormPdf(d1)), sigma) * FP, 2 * sqrtT)
        carry  == MulFP(MulFP(Discounted(K, T, r), r), NormCdf(d2))
        carryP == MulFP(MulFP(Discounted(K, T, r), r), NormCdf(-d2))
        theta  == IF option_type = "call"
                     THEN DivRound((common_theta - carry) * CentsPerDollar, 365)
                     ELSE DivRound((common_theta + carryP) * CentsPerDollar, 365)
        vega   == MulFP(MulFP(S, NormPdf(d1)), sqrtT)
        rho    == IF option_type = "call"
                     THEN MulFP(MulFP(Discounted(K, T, r), T), NormCdf(d2))
                     ELSE -MulFP(MulFP(Discounted(K, T, r), T), NormCdf(-d2))
    IN  [delta |-> delta, gamma |-> gamma, theta |-> theta, vega |-> vega, rho |-> rho]

(* A plausible slip: the expired delta is 1.0 for every option in the      *)
(* money, the put included.                                                *)
calculate_greeks_by_moneyness(S, K, T, r, sigma, option_type) ==
    IF T <= 0
       THEN [delta |-> IF (option_type = "call" /\ S > K) \/ (option_type = "put" /\ S < K)
                          THEN FP ELSE 0,
             gamma |-> 0, theta |-> 0, vega |-> 0, rho |-> 0]
       ELSE LiveGreeks(S, K, T, r, sigma, option_type)

(* A plausible slip: the put's delta is N(d1), the "- 1" forgotten.        *)
calculate_greeks_put_delta_unshifted(S, K, T, r, sigma, option_type) ==
    IF T <= 0
       THEN [delta |-> IF option_type = "call" /\ S > K THEN FP ELSE 0,
             gamma |-> 0, theta |-> 0, vega |-> 0, rho |-> 0]
       ELSE [LiveGreeks(S, K, T, r, sigma, option_type) EXCEPT
                !.delta = IF option_type = "put" THEN @ + FP ELSE @]

(* A plausible slip: the put's vega takes the sign of its rho.             *)
calculate_greeks_signed_vega(S, K, T, r, sigma, option_type) ==
    IF T <= 0
       THEN [delta |-> IF option_type = "call" /\ S > K THEN FP ELSE 0,
             gamma |-> 0, theta |-> 0, vega |-> 0, rho |-> 0]
       ELSE [LiveGreeks(S, K, T, r, sigma, option_type) EXCEPT
                !.vega = IF option_type = "put" THEN -@ ELSE @]

calculate_greeks(S, K, T, r, sigma, option_type) ==
    IF T <= 0
       THEN [delta |-> IF option_type = "call" /\ S > K THEN FP ELSE 0,
             gamma |-> 0, theta |-> 0, vega |-> 0, rho |-> 0]
       ELSE LiveGreeks(S, K, T, r, sigma, option_type)

-----------------------------------------------------------------------------
(* The volatility solver.                                                  *)

(* The bracket handed to brentq, 0.001 and 5.0, and the volatility         *)
(* returned when brentq fails, 0.20.                                       *)
BracketLow == 10

BracketHigh == 50000

(* A plausible slip: the default volatility written in percent.            *)
DefaultVolatilityInPercent == 20 * FP

DefaultVolatility == 2000

(* objective_function(sigma), the closure of implied_volatility.           *)
objective_function(market_price, S, K, T, r, option_type, sigma) ==
    LET theoretical_price == IF option_type = "call"
                                THEN black_scholes_call(S, K, T, r, sigma)
                                ELSE black_scholes_put(S, K, T, r, sigma)
    IN  theoretical_price - market_price

(* The iteration of the root-finder between lo and hi, where the objective *)
(* has the values flo and fhi of opposite signs: the interval is narrowed  *)
(* around the change of sign down to the resolution 1/FP (xtol = 1e-6 is   *)
(* finer than that), and the end with the smaller residual is the          *)
(* estimate.                                                               *)
RECURSIVE Narrow(_, _, _, _, _, _, _, _, _, _)
Narrow(market_price, S, K, T, r, option_type, lo, hi, flo, fhi) ==
    IF hi - lo <= 1
       THEN IF Abs(fhi) < Abs(flo) THEN hi ELSE lo
       ELSE Only({IF m.f = 0 THEN m.x
                  ELSE IF Sign(m.f) = Sign(flo)
                          THEN Narrow(market_price, S, K, T, r, option_type,
                                      m.x, hi, m.f, fhi)
                          ELSE Narrow(market_price, S, K, T, r, option_type,
                                      lo, m.x, flo, m.f) :
                  m \in {[x |-> (lo + hi) \div 2,
                          f |-> objective_function(market_price, S, K, T, r, option_type,
                                                   (lo + hi) \div 2)]}})

(* scipy.optimize.brentq(objective_function, a, b, xtol=1e-6, maxiter=100):*)
(* ValueError when the objective has the same sign at a and at b, a or b   *)
(* when the objective is zero there, RuntimeError when maxiter iterations  *)
(* do not converge (converges = FALSE: the library's outcome), and a root  *)
(* otherwise.                                                              *)
brentq(market_price, S, K, T, r, option_type, a, b, converges) ==
    Only({IF f.a = 0 THEN Returned(a)
          ELSE IF f.b = 0 THEN Returned(b)
          ELSE IF Sign(f.a) = Sign(f.b) THEN Raised("ValueError")
          ELSE IF ~converges THEN Raised("RuntimeError")
          ELSE Returned(Narrow(market_price, S, K, T, r, option_type, a, b, f.a, f.b)) :
          f \in {[a |-> objective_function(market_price, S, K, T, r, option_type, a),
                  b |-> objective_function(market_price, S, K, T, r, option_type, b)]}})

(* What implied_volatility hands back: the value it returns or the         *)
(* exception it raises, and the functions it called on the way.            *)
Solved(outcome, called) ==
    [raised |-> outcome.raised, value |-> outcome.value, calls |-> called]

(* The pricing function the objective calls.                               *)
Pricer(option_type) ==
    IF option_type = "call" THEN "black_scholes_call" ELSE "black_scholes_put"

(* A plausible slip: the failure of the root-finder is not caught.         *)
implied_volatility_uncaught(market_price, S, K, T, r, option_type, converges) ==
    IF T <= 0
       THEN Solved(Returned(0), {})
       ELSE Only({Solved(iv, {"brentq", Pricer(option_type)}) :
                  iv \in {brentq(market_price, S, K, T, r, option_type,
                                 BracketLow, BracketHigh, converges)}})

(* A plausible slip: an option expiring now (T = 0) goes to the solver.    *)
implied_volatility_at_expiry(market_price, S, K, T, r, option_type, converges) ==
    IF T < 0
       THEN Solved(Returned(0), {})
       ELSE Only({IF iv.raised \in {"ValueError", "RuntimeError"}
                     THEN Solved(Returned(DefaultVolatility),
                                 {"brentq", Pricer(option_type)})
                     ELSE Solved(iv, {"brentq", Pricer(option_type)}) :
                  iv \in {brentq(market_price, S, K, T, r, option_type,
                                 BracketLow, BracketHigh, converges)}})

(* round(iv, 4) is the identity at the resolution 1/FP.                    *)
implied_volatility(market_price, S, K, T, r, option_type, converges) ==
    IF T <= 0
       THEN Solved(Returned(0), {})
       ELSE Only({IF iv.raised \in {"ValueError", "RuntimeError"}
                     THEN Solved(Returned(DefaultVolatility),
                                 {"brentq", Pricer(option_type)})
                     ELSE Solved(iv, {"brentq", Pricer(option_type)}) :
                  iv \in {brentq(market_price, S, K, T, r, option_type,
                                 BracketLow, BracketHigh, converges)}})

-----------------------------------------------------------------------------
(* The chain normalizer.                                                   *)
(*                                                                         *)
(* A raw value of a row of the data source is a number, None, NaN or a     *)
(* text that is not a number ("N/A"); a raw row is a record whose DOMAIN   *)
(* is the columns the source delivered.  Prices and strikes are in cents.  *)

Num(v) == [kind |-> "number", value |-> v]

None == [kind |-> "None"]

NaN == [kind |-> "nan"]

Text == [kind |-> "str"]

(* row.get(key, default)                                                   *)
Get(row, key, default) == IF key \in DOMAIN row THEN row[key] ELSE default

(* x > y and x < y raise TypeError unless both sides are floats; with NaN  *)
(* on a side the comparison is False.                                      *)
Ordered(x) == x.kind \in {"number", "nan"}

Greater(x, y) == x.kind = "number" /\ y.kind = "number" /\ x.value > y.value

(* A plausible slip: a conversion that fails gives the sentinel -1.0, not  *)
(* the caller's default.                                                   *)
safe_float_sentinel(value, default) ==
    IF value.kind = "nan" THEN default
    ELSE IF value.kind = "number" THEN value.value
    ELSE -1

(* safe_float: the default for NaN (pd.isna), float(value) for a number,   *)
(* the default when float(value) raises TypeError (None) or ValueError     *)
(* (a text that is not a number).                                          *)
safe_float(value, default) ==
    IF value.kind = "nan" THEN default
    ELSE IF value.kind = "number" THEN value.value
    ELSE default

(* safe_int: the default for None and NaN, int(value) for a number, the    *)
(* default when int(value) raises ValueError.                              *)
safe_int(value, default) ==
    IF value.kind \in {"None", "nan"} THEN default
    ELSE IF value.kind = "number" THEN value.value
    ELSE default

(* (exp_datetime - datetime.now()).days / 365.0, a date being counted by   *)
(* the whole days from now to it.                                          *)
TimeToExpiration(exp_date) == DivRound(exp_date * FP, 365)

(* What processing a row hands back: the quote or the exception, and the   *)
(* functions called on the way.                                            *)
RowDone(outcome, called) ==
    [raised |-> outcome.raised, value |-> outcome.value, calls |-> called]

(* A plausible slip: the time to expiration is not looked at, and a row of *)
(* an expiration that has passed is handed to the solver.                  *)
ValuationIgnoringExpiry(last_price, current_price, strike, time_to_exp, r, option_type, converges) ==
    IF Greater(last_price, Num(0))
       THEN Only({[iv |-> iv.value,
                   theoretical_price |->
                       IF option_type = "call"
                          THEN black_scholes_call(current_price, strike.value, time_to_exp,
                                                  r, iv.value)
                          ELSE black_scholes_put(current_price, strike.value, time_to_exp,
                                                 r, iv.value),
                   greeks |-> calculate_greeks(current_price, strike.value, time_to_exp,
                                               r, iv.value, option_type),
                   calls  |-> iv.calls \cup {"implied_volatility", Pricer(option_type),
                                             "calculate_greeks"}] :
                  iv \in {implied_volatility(last_price.value, current_price, strike.value,
                                             time_to_exp, r, option_type, converges)}})
       ELSE [iv |-> DefaultVolatility,
             theoretical_price |-> 0,
             greeks |-> [delta |-> 0, gamma |-> 0, theta |-> 0, vega |-> 0, rho |-> 0],
             calls |-> {}]

(* The valuation of a row: the solver, the kernel and the Greeks when      *)
(* last_price > 0 and time_to_exp > 0, the defaults otherwise.             *)
Valuation(last_price, current_price, strike, time_to_exp, r, option_type, converges) ==
    IF Greater(last_price, Num(0)) /\ time_to_exp > 0
       THEN Only({[iv |-> iv.value,
                   theoretical_price |->
                       IF option_type = "call"
                          THEN black_scholes_call(current_price, strike.value, time_to_exp,
                                                  r, iv.value)
                          ELSE black_scholes_put(current_price, strike.value, time_to_exp,
                                                 r, iv.value),
                   greeks |-> calculate_greeks(current_price, strike.value, time_to_exp,
                                               r, iv.value, option_type),
                   calls  |-> iv.calls \cup {"implied_volatility", Pricer(option_type),
                                             "calculate_greeks"}] :
                  iv \in {implied_volatility(last_price.value, current_price, strike.value,
                                             time_to_exp, r, option_type, converges)}})
       ELSE [iv |-> DefaultVolatility,
             theoretical_price |-> 0,
             greeks |-> [delta |-> 0, gamma |-> 0, theta |-> 0, vega |-> 0, rho |-> 0],
             calls |-> {}]

(* The body of the loop over the rows of calls_df (option_type = "call")   *)
(* and of puts_df ("put").                                                 *)
ProcessRow(row, current_price, time_to_exp, r, option_type, converges) ==
    IF "strike" \notin DOMAIN row
       THEN RowDone(Raised("KeyError"), {})
    ELSE
    LET strike        == row.strike
        last_price    == Get(row, "lastPrice", Num(0))
        bid           == Get(row, "bid", Num(0))
        ask           == Get(row, "ask", Num(0))
        volume        == Get(row, "volume", Num(0))
        open_interest == Get(row, "openInterest", Num(0))
        valued        == Greater(last_price, Num(0)) /\ time_to_exp > 0
    IN  IF ~Ordered(last_price)
           THEN RowDone(Raised("TypeError"), {})
        ELSE IF valued /\ strike.kind \in {"None", "str"}
           THEN RowDone(Raised("TypeError"),
                        {"implied_volatility", "brentq", Pricer(option_type)})
        ELSE IF ~Ordered(strike)
           THEN RowDone(Raised("TypeError"), {})
        ELSE
        Only({RowDone(Returned(
                [strike            |-> safe_float(strike, 0),
                 lastPrice         |-> safe_float(last_price, 0),
                 bid               |-> safe_float(bid, 0),
                 ask               |-> safe_float(ask, 0),
                 volume            |-> safe_int(volume, 0),
                 openInterest      |-> safe_int(open_interest, 0),
                 impliedVolatility |-> safe_float(Num(v.iv), 0),
                 theoreticalPrice  |-> safe_float(Num(v.theoretical_price), 0),
                 delta             |-> safe_float(Num(v.greeks.delta), 0),
                 gamma             |-> safe_float(Num(v.greeks.gamma), 0),
                 theta             |-> safe_float(Num(v.greeks.theta), 0),
                 vega              |-> safe_float(Num(v.greeks.vega), 0),
                 rho               |-> safe_float(Num(v.greeks.rho), 0),
                 inTheMoney        |-> IF option_type = "call"
                                          THEN Greater(Num(current_price), strike)
                                          ELSE Greater(strike, Num(current_price))]),
                v.calls) :
              v \in {Valuation(last_price, current_price, strike, time_to_exp, r,
                               option_type, converges)}})

(* The loop over the rows from the k-th on: the quotes in the order of the *)
(* rows, or the exception of the first row that raises.                    *)
RECURSIVE ProcessRows(_, _, _, _, _, _, _)
ProcessRows(rows, k, current_price, time_to_exp, r, option_type, converges) ==
    IF k > Len(rows) THEN RowDone(Returned(<<>>), {})
    ELSE Only({IF first.raised # "none" THEN first
               ELSE Only({IF rest.raised # "none"
                             THEN RowDone(Raised(rest.raised), first.calls \cup rest.calls)
                             ELSE RowDone(Returned(<<first.value>> \o rest.value),
                                          first.calls \cup rest.calls) :
                          rest \in {ProcessRows(rows, k + 1, current_price, time_to_exp,
                                                r, option_type, converges)}}) :
               first \in {ProcessRow(rows[k], current_price, time_to_exp, r, option_type,
                                     converges)}})

(* The quote q put into a list sorted by strike, after the quotes whose    *)
(* strike is not larger: sorted() is stable.                               *)
RECURSIVE InsertByStrike(_, _)
InsertByStrike(quotes, q) ==
    IF quotes = <<>> THEN <<q>>
    ELSE IF quotes[Len(quotes)].strike <= q.strike THEN Append(quotes, q)
    ELSE Append(InsertByStrike(SubSeq(quotes, 1, Len(quotes) - 1), q), quotes[Len(quotes)])

(* A plausible slip: the quotes are left in the order of the rows.         *)
UnsortedByStrike(quotes) == quotes

(* sorted(quotes, key=lambda x: x['strike'])                               *)
RECURSIVE SortedByStrike(_)
SortedByStrike(quotes) ==
    IF quotes = <<>> THEN <<>>
    ELSE InsertByStrike(SortedByStrike(SubSeq(quotes, 1, Len(quotes) - 1)),
                        quotes[Len(quotes)])

(* The body of the loop over the expirations: the fetch of the chain, the  *)
(* calls, the puts, and the entry of the chains dictionary; or the         *)
(* exception that the handler of the loop catches.                         *)
ProcessExpiration(fetched, exp_date, current_price, r, converges) ==
    IF fetched.raised # "none" THEN RowDone(fetched, {})
    ELSE
    LET time_to_exp == TimeToExpiration(exp_date)
    IN  Only({IF calls_processed.raised # "none" THEN calls_processed
              ELSE Only({IF puts_processed.raised # "none"
                            THEN RowDone(Raised(puts_processed.raised),
                                         calls_processed.calls \cup puts_processed.calls)
                            ELSE RowDone(Returned(
                                     [calls |-> SortedByStrike(calls_processed.value),
                                      puts  |-> SortedByStrike(puts_processed.value),
                                      timeToExpiration |-> time_to_exp]),
                                     calls_processed.calls \cup puts_processed.calls) :
                         puts_processed \in
                             {ProcessRows(fetched.value.puts, 1, current_price,
                                          time_to_exp, r, "put", converges)}}) :
              calls_processed \in
                  {ProcessRows(fetched.value.calls, 1, current_price, time_to_exp,
                               r, "call", converges)}})

(* A plausible slip: the slice is one expiration too long.                 *)
ExpirationLimitOffByOne == 6 + 1

(* The number of expirations processed: exp_dates[:6].                     *)
ExpirationLimit == 6

(* A plausible slip: the handler of the loop re-raises, and the outer      *)
(* handler returns None for the whole chain.                               *)
get_yahoo_options_data_all_or_nothing(symbol, source, r, converges) ==
    IF source.info.raised # "none" \/ source.options = <<>>
       THEN RowDone(Returned(None), {})
    ELSE
    LET stock_info    == source.info.value
        current_price == Get(stock_info, "currentPrice",
                             Get(stock_info, "regularMarketPrice", 100 * CentsPerDollar))
        exp_dates     == source.options
        first         == {exp_dates[k] : k \in 1..Min(Len(exp_dates), ExpirationLimit)}
    IN  Only({IF \E p \in done : p.outcome.raised # "none"
                 THEN RowDone(Returned(None), UNION {p.outcome.calls : p \in done})
                 ELSE RowDone(Returned([kind |-> "chain", symbol |-> symbol,
                                        currentPrice |-> current_price,
                                        expirationDates |-> exp_dates,
                                        chains |-> [d \in first |->
                                            (CHOOSE p \in done : p.date = d).outcome.value]]),
                              UNION {p.outcome.calls : p \in done}) :
              done \in {{[date |-> d,
                          outcome |-> ProcessExpiration(source.chain[d], d, current_price,
                                                        r, converges)] : d \in first}}})

(* get_yahoo_options_data: None when the source fails or lists no          *)
(* expiration; otherwise the chains of those among the first               *)
(* ExpirationLimit expirations whose processing raised nothing.            *)
get_yahoo_options_data(symbol, source, r, converges) ==
    IF source.info.raised # "none" \/ source.options = <<>>
       THEN RowDone(Returned(None), {})
    ELSE
    LET stock_info    == source.info.value
        current_price == Get(stock_info, "currentPrice",
                             Get(stock_info, "regularMarketPrice", 100 * CentsPerDollar))
        exp_dates     == source.options
        first         == {exp_dates[k] : k \in 1..Min(Len(exp_dates), ExpirationLimit)}
    IN  Only({RowDone(Returned([kind |-> "chain", symbol |-> symbol,
                                currentPrice |-> current_price,
                                expirationDates |-> exp_dates,
                                chains |-> [d \in {p.date : p \in
                                                      {q \in done : q.outcome.raised = "none"}} |->
                                    (CHOOSE p \in done : p.date = d).outcome.value]]),
                      UNION {p.outcome.calls : p \in done}) :
              done \in {{[date |-> d,
                          outcome |-> ProcessExpiration(source.chain[d], d, current_price,
                                                        r, converges)] : d \in first}}})

-----------------------------------------------------------------------------
(* The inputs of the calls.                                                *)

MaxLegs == 2

MaxContracts == 2

(* Option legs at a strike of 95 with a premium of 5.00 and at a strike of *)
(* 105 with a premium of 2.00, bought and sold, calls and puts, without    *)
(* and with the optional key contracts.                                    *)
Quotes == {<<95, 50>>, <<105, 20>>}

QuotedLegs ==
    {[action |-> a, type |-> t, strike |-> Dollars(q[1]), premium |-> Tenths(q[2])] :
        a \in {"buy", "sell"}, t \in {"call", "put"}, q \in Quotes}
    \cup
    {[action |-> a, type |-> t, strike |-> Dollars(q[1]), premium |-> Tenths(q[2]),
      contracts |-> MaxContracts] :
        a \in {"buy", "sell"}, t \in {"call", "put"}, q \in Quotes}

(* Legs with a small premium: 0.20, which is less than the step of the     *)
(* sweep, and one tick, which is less than half a cent.                    *)
CheapLegs ==
    {[action |-> "buy", type |-> "call", strike |-> Dollars(95), premium |-> Tenths(2)],
     [action |-> "buy", type |-> "put", strike |-> Dollars(95), premium |-> Tenths(2)],
     [action |-> "sell", type |-> "call", strike |-> Dollars(105), premium |-> 1]}

OptionLegs == QuotedLegs \cup CheapLegs

(* The stock leg of the covered_call and protective_put templates.         *)
StockLeg == [action |-> "hold", type |-> "stock", shares |-> 100]

Legs == OptionLegs \cup {StockLeg}

LegLists == UNION {[1..n -> Legs] : n \in 0..MaxLegs}

(* Spot lists handed to calculate_strategy_payoff.                         *)
SpotLists ==
    {<<>>,
     <<Dollars(98)>>,
     <<Dollars(90), Dollars(95), Dollars(100), Dollars(110)>>,
     <<Dollars(110), Dollars(105), Dollars(97)>>}

(* Current prices handed to analyze_strategy, in ticks.                    *)
CurrentPrices == {Dollars(100), Dollars(200)}

(* The arguments of the pricing kernel: S and K in cents, T, r and sigma   *)
(* in units of 1/FP.  T is negative, zero or positive; sigma = 0 is given  *)
(* for an expired option only (sigma > 0 is the callers' contract, and     *)
(* sigma * sqrt(T) divides when T > 0).                                    *)
SpotCents == {9000, 10000, 11000}

StrikeCents == {9500, 10000}

Expiries == {-2500, 0, 2500, 10000}

Rates == {0, 500}

Volatilities == {0, 2000, 5000}

KernelArgs ==
    {a \in [S : SpotCents, K : StrikeCents, T : Expiries, r : Rates, sigma : Volatilities] :
        a.T > 0 => a.sigma > 0}

OptionTypes == {"call", "put"}

(* Market prices handed to implied_volatility, in cents: nothing, 5.00,    *)
(* 15.00, 200.00, and the price of the one-year call at the money at the   *)
(* upper end of the bracket.                                               *)
MarketPrices ==
    {0, 500, 1500, 20000, black_scholes_call(10000, 10000, 10000, 500, BracketHigh)}

SolverArgs ==
    [market_price : MarketPrices, S : SpotCents, K : StrikeCents, T : Expiries,
     r : Rates, option_type : OptionTypes]

-----------------------------------------------------------------------------
(* The data source of the chain normalizer.                                *)

(* A row as the source delivers it, every column a number.                 *)
Row(strike, last_price) ==
    [strike |-> Num(strike), lastPrice |-> Num(last_price), bid |-> Num(last_price - 10),
     ask |-> Num(last_price + 10), volume |-> Num(12), openInterest |-> Num(340)]

(* The same row without the column key.                                    *)
Without(row, key) == [k \in DOMAIN row \ {key} |-> row[k]]

(* The chains of the source, by expiration; an expiration is counted by    *)
(* the days from now to it.  The rows are not in the order of the strikes. *)
Listings ==
    [d \in {-1, 30, 60, 91, 120, 150, 180, 210, 240} |->
        CASE d = -1  -> Returned([calls |-> <<Row(10500, 200), Row(9500, 700)>>,
                                  puts  |-> <<Row(10000, 300)>>])
          [] d = 30  -> Returned([calls |-> <<Row(10500, 200), Row(9500, 700)>>,
                                  puts  |-> <<Row(10000, 300)>>])
          [] d = 60  -> Raised("Exception")
          [] d = 91  -> Returned([calls |-> <<Row(10000, 300), [Row(10000, 300) EXCEPT !.bid = Num(280)],
                                              Row(9500, 700)>>,
                                  puts  |-> <<Row(10500, 700), Row(9500, 100)>>])
          [] d = 120 -> Returned([calls |-> <<[Row(10500, 200) EXCEPT !.bid = None,
                                                                       !.volume = Text],
                                              Row(9500, 700)>>,
                                  puts  |-> <<>>])
          [] d = 150 -> Returned([calls |-> <<Row(10500, 200),
                                              [Row(9500, 700) EXCEPT !.lastPrice = None]>>,
                                  puts  |-> <<Row(10000, 300)>>])
          [] d = 180 -> Returned([calls |-> <<[Row(10500, 200) EXCEPT !.lastPrice = NaN],
                                              Without(Row(9500, 700), "lastPrice")>>,
                                  puts  |-> <<[Row(10000, 0) EXCEPT !.openInterest = NaN]>>])
          [] d = 210 -> Returned([calls |-> <<Row(10500, 200)>>,
                                  puts  |-> <<Without(Row(10000, 300), "strike")>>])
          [] d = 240 -> Returned([calls |-> <<Row(10500, 200)>>,
                                  puts  |-> <<[Row(10000, 300) EXCEPT !.lastPrice = Text]>>])]

(* ticker.options: no expiration, each expiration alone, expirations that  *)
(* fail before, between and after expirations that do not, and a list of   *)
(* more than ExpirationLimit expirations.                                  *)
ExpirationLists ==
    {<<>>} \cup {<<d>> : d \in DOMAIN Listings} \cup
    {<<30, 60, 91>>, <<150, 30>>, <<120, 240>>, <<60, 210>>, <<180, 120, 150>>,
     <<-1, 60, 150, 210, 240, 180, 30>>}

(* ticker.info: with the current price, with the regular market price      *)
(* only, with neither, or failing.                                         *)
Infos ==
    {Returned([currentPrice |-> 10000, regularMarketPrice |-> 9900]),
     Returned([regularMarketPrice |-> 9900]),
     Returned([shortName |-> "Apple Inc."]),
     Raised("Exception")}

(* The sources: every list of expirations with the usual info, and one     *)
(* expiration with each of the other infos.                                *)
Sources ==
    {[info |-> Returned([currentPrice |-> 10000, regularMarketPrice |-> 9900]),
      options |-> dates, chain |-> Listings] : dates \in ExpirationLists}
    \cup
    {[info |-> i, options |-> <<30>>, chain |-> Listings] : i \in Infos}

Symbols == {"AAPL"}

-----------------------------------------------------------------------------
(* The strategy templates, as the module defines them.  None stands for    *)
(* Python's None: the strikes and premiums are filled in by the caller.    *)

TemplateLeg(action, type) ==
    [action |-> action, type |-> type, strike |-> "None", premium |-> "None",
     contracts |-> 1]

TemplatesAsWritten ==
    [long_call        |-> <<TemplateLeg("buy", "call")>>,
     long_put         |-> <<TemplateLeg("buy", "put")>>,
     covered_call     |-> <<TemplateLeg("sell", "call"), StockLeg>>,
     protective_put   |-> <<TemplateLeg("buy", "put"), StockLeg>>,
     bull_call_spread |-> <<TemplateLeg("buy", "call"), TemplateLeg("sell", "call")>>,
     bear_put_spread  |-> <<TemplateLeg("buy", "put"), TemplateLeg("sell", "put")>>,
     long_straddle    |-> <<TemplateLeg("buy", "call"), TemplateLeg("buy", "put")>>,
     iron_condor      |-> <<TemplateLeg("sell", "put"), TemplateLeg("buy", "put"),
                            TemplateLeg("sell", "call"), TemplateLeg("buy", "call")>>]

-----------------------------------------------------------------------------
(* The requests made of the services.                                      *)

(* The symbol of a request, as the client writes it.                       *)
RequestedSymbols == {"AAPL", "aapl", "MSFT"}

(* symbol.upper()                                                          *)
Upper(symbol) == IF symbol = "aapl" THEN "AAPL" ELSE symbol

ListedSymbols == {Upper(symbol) : symbol \in RequestedSymbols}

(* What the data source holds when a chain is fetched: nothing (the info   *)
(* fails), a chain whose expiration has passed, a chain without a usable   *)
(* last price.                                                             *)
ServiceSources ==
    {source \in Sources :
        source.info.raised # "none" \/ source.options \in {<<-1>>, <<180>>}}

(* The legs of a request: none, a long straddle, a leg without premium.    *)
RequestLegs ==
    {<<>>,
     <<[action |-> "buy", type |-> "call", strike |-> Dollars(95), premium |-> Tenths(50)],
       [action |-> "buy", type |-> "put", strike |-> Dollars(95), premium |-> Tenths(50)]>>,
     <<[action |-> "buy", type |-> "call", strike |-> Dollars(95)]>>}

(* The JSON bodies of the strategy requests: currentPrice in dollars (50,  *)
(* 100, 250) or absent, legs present or absent.                            *)
StrategyBodies ==
    {[legs |-> legs, currentPrice |-> current] :
        legs \in RequestLegs, current \in {50, 100, 250}}
    \cup {[legs |-> legs] : legs \in RequestLegs}
    \cup {[currentPrice |-> 100]}

(* The query of /predict/<symbol>: days absent, or an integer.             *)
PredictQueries == {<<>>, [days |-> 30], [days |-> 365], [days |-> 400]}

(* The JSON bodies of /predict-batch.                                      *)
BatchBodies ==
    {[symbols |-> symbols, days |-> days] :
        symbols \in {<<>>, <<"AAPL">>, <<"aapl", "MSFT">>}, days \in {30, 365}}
    \cup {[symbols |-> <<"AAPL">>], [days |-> 30]}

-----------------------------------------------------------------------------
(* The engine.                                                             *)

(* OptionsPricingEngine.__init__: risk_free_rate = 0.05, in units of 1/FP. *)
(* No call is in progress.  The caches of the service are empty            *)
(* dictionaries, and the clock is counted from the start of the process.   *)
Init ==
    /\ risk_free_rate = 500
    /\ STRATEGY_TEMPLATES = TemplatesAsWritten
    /\ op = "idle"
    /\ args = <<>>
    /\ result = Returned(<<>>)
    /\ calls = {}
    /\ caller_legs = <<>>
    /\ options_cache = <<>>
    /\ prediction_cache = <<>>
    /\ now = 0
    /\ last_fresh = [symbol \in ListedSymbols |-> None]
    /\ last_analysis = None

(* The leg as leg.setdefault('contracts', 1) would leave it.               *)
WithContracts(leg) ==
    IF "contracts" \in DOMAIN leg THEN leg
    ELSE [k \in DOMAIN leg \cup {"contracts"} |-> IF k = "contracts" THEN 1 ELSE leg[k]]

(* A plausible slip: the number of contracts is read with setdefault,      *)
(* which writes the default into the caller's leg.                         *)
CallStrategyPayoffSettingDefault ==
    /\ op = "idle"
    /\ \E legs \in LegLists, spots \in SpotLists :
        /\ op' = "calculate_strategy_payoff"
        /\ args' = [legs |-> legs, spots |-> spots]
        /\ result' = calculate_strategy_payoff(legs, spots)
        /\ caller_legs' = [k \in DOMAIN legs |-> WithContracts(legs[k])]
    /\ calls' = {}
    /\ UNCHANGED <<risk_free_rate, STRATEGY_TEMPLATES>>
    /\ UNCHANGED service

(* The engine is synchronous: a call is made when none is in progress, and *)
(* its result is held until the caller takes it.                           *)
CallStrategyPayoff ==
    /\ op = "idle"
    /\ \E legs \in LegLists, spots \in SpotLists :
        /\ op' = "calculate_strategy_payoff"
        /\ args' = [legs |-> legs, spots |-> spots]
        /\ result' = calculate_strategy_payoff(legs, spots)
        /\ caller_legs' = legs
    /\ calls' = {}
    /\ UNCHANGED <<risk_free_rate, STRATEGY_TEMPLATES>>
    /\ UNCHANGED service

CallAnalyzeStrategy ==
    /\ op = "idle"
    /\ \E legs \in LegLists, current \in CurrentPrices :
        /\ op' = "analyze_strategy"
        /\ args' = [legs |-> legs, current_price |-> current]
        /\ result' = analyze_strategy(legs, current)
        /\ caller_legs' = legs
    /\ calls' = {"calculate_strategy_payoff"}
    /\ UNCHANGED <<risk_free_rate, STRATEGY_TEMPLATES>>
    /\ UNCHANGED service

CallBlackScholesCall ==
    /\ op = "idle"
    /\ \E a \in KernelArgs :
        /\ op' = "black_scholes_call"
        /\ args' = a
        /\ result' = Returned(black_scholes_call(a.S, a.K, a.T, a.r, a.sigma))
    /\ calls' = {}
    /\ caller_legs' = <<>>
    /\ UNCHANGED <<risk_free_rate, STRATEGY_TEMPLATES>>
    /\ UNCHANGED service

CallBlackScholesPut ==
    /\ op = "idle"
    /\ \E a \in KernelArgs :
        /\ op' = "black_scholes_put"
        /\ args' = a
        /\ result' = Returned(black_scholes_put(a.S, a.K, a.T, a.r, a.sigma))
    /\ calls' = {}
    /\ caller_legs' = <<>>
    /\ UNCHANGED <<risk_free_rate, STRATEGY_TEMPLATES>>
    /\ UNCHANGED service

CallCalculateGreeks ==
    /\ op = "idle"
    /\ \E a \in KernelArgs, option_type \in OptionTypes :
        /\ op' = "calculate_greeks"
        /\ args' = [S |-> a.S, K |-> a.K, T |-> a.T, r |-> a.r, sigma |-> a.sigma,
                    option_type |-> option_type]
        /\ result' = Returned(calculate_greeks(a.S, a.K, a.T, a.r, a.sigma, option_type))
    /\ calls' = {}
    /\ caller_legs' = <<>>
    /\ UNCHANGED <<risk_free_rate, STRATEGY_TEMPLATES>>
    /\ UNCHANGED service

CallImpliedVolatility ==
    /\ op = "idle"
    /\ \E a \in SolverArgs, converges \in BOOLEAN :
        \E iv \in {implied_volatility(a.market_price, a.S, a.K, a.T, a.r, a.option_type,
                                      converges)} :
            /\ op' = "implied_volatility"
            /\ args' = [market_price |-> a.market_price, S |-> a.S, K |-> a.K, T |-> a.T,
                        r |-> a.r, option_type |-> a.option_type, converges |-> converges]
            /\ result' = [raised |-> iv.raised, value |-> iv.value]
            /\ calls' = iv.calls
    /\ caller_legs' = <<>>
    /\ UNCHANGED <<risk_free_rate, STRATEGY_TEMPLATES>>
    /\ UNCHANGED service

CallGetYahooOptionsData ==
    /\ op = "idle"
    /\ \E symbol \in Symbols, source \in Sources, converges \in BOOLEAN :
        \E data \in {get_yahoo_options_data(symbol, source, risk_free_rate, converges)} :
            /\ op' = "get_yahoo_options_data"
            /\ args' = [symbol |-> symbol, source |-> source, converges |-> converges]
            /\ result' = [raised |-> data.raised, value |-> data.value]
            /\ calls' = data.calls
    /\ caller_legs' = <<>>
    /\ UNCHANGED <<risk_free_rate, STRATEGY_TEMPLATES>>
    /\ UNCHANGED service

(* The caller takes the result (or the exception).                         *)
Return ==
    /\ op # "idle"
    /\ op' = "idle"
    /\ args' = <<>>
    /\ result' = Returned(<<>>)
    /\ calls' = {}
    /\ caller_legs' = <<>>
    /\ UNCHANGED <<risk_free_rate, STRATEGY_TEMPLATES>>
    /\ UNCHANGED service

Next ==
    \/ CallStrategyPayoff
    \/ CallAnalyzeStrategy
    \/ CallBlackScholesCall
    \/ CallBlackScholesPut
    \/ CallCalculateGreeks
    \/ CallImpliedVolatility
    \/ CallGetYahooOptionsData
    \/ Return

Spec == Init /\ [][Next]_vars

-----------------------------------------------------------------------------
(* The options service (advanced_app.py).  A handler runs from the request *)
(* to the response in one step; the clock does not move meanwhile.         *)

CACHE_DURATION == 3600

(* The clock is advanced by half of CACHE_DURATION, MaxTicks times at      *)
(* most.                                                                   *)
MaxTicks == 2

ClockStep == CACHE_DURATION \div 2

(* jsonify(...) with its status code: the response of a handler.           *)
Response(status, body) == Returned([status |-> status] @@ body)

(* cache[key] = entry                                                      *)
Put(cache, key, entry) ==
    [k \in DOMAIN cache \cup {key} |-> IF k = key THEN entry ELSE cache[k]]

(* A plausible slip: the symbol is left out of the key.                    *)
OptionsKeyShared(symbol) == "options_"

(* f"options_{symbol}"                                                     *)
OptionsKey(symbol) == "options_" \o symbol

(* get_options_chain: the cached chain when the entry of the symbol is     *)
(* younger than CACHE_DURATION, else a fresh fetch, stored when it yields  *)
(* data.                                                                   *)
GetOptionsChain ==
    /\ op = "idle"
    /\ \E requested \in RequestedSymbols, source \in ServiceSources :
        LET symbol       == Upper(requested)
            cache_key    == OptionsKey(symbol)
            current_time == now
        IN  /\ op' = "get_options_chain"
            /\ args' = [symbol |-> requested]
            /\ IF /\ cache_key \in DOMAIN options_cache
                  /\ current_time - options_cache[cache_key][2] < CACHE_DURATION
                  THEN /\ result' = Response(200, [success |-> TRUE, cached |-> TRUE,
                                                   data |-> options_cache[cache_key][1],
                                                   source |-> "cache"])
                       /\ calls' = {}
                       /\ UNCHANGED <<options_cache, last_fresh>>
                  ELSE \E options_data \in
                           {get_yahoo_options_data(symbol, source, risk_free_rate, TRUE)} :
                       /\ calls' = {"get_yahoo_options_data"} \cup options_data.calls
                       /\ IF options_data.value.kind # "None"
                             THEN /\ options_cache' =
                                        Put(options_cache, cache_key,
                                            <<options_data.value, current_time>>)
                                  /\ last_fresh' =
                                        [last_fresh EXCEPT ![symbol] = options_data.value]
                                  /\ result' = Response(200, [success |-> TRUE,
                                                              cached |-> FALSE,
                                                              data |-> options_data.value,
                                                              source |-> "fresh"])
                             ELSE /\ result' = Response(500, [success |-> FALSE,
                                                              error |-> "No options data available"])
                                  /\ UNCHANGED <<options_cache, last_fresh>>
    /\ UNCHANGED <<prediction_cache, now, last_analysis, engine>>

(* predict_simple: the same scheme on prediction_cache, the prediction     *)
(* being what the predictor gives, a dictionary or None.                   *)
PredictSimple ==
    /\ op = "idle"
    /\ \E requested \in RequestedSymbols,
          made \in BOOLEAN :
        LET symbol       == Upper(requested)
            cache_key    == "simple_" \o symbol
            current_time == now
            prediction   == IF made THEN [kind |-> "simple", symbol |-> symbol] ELSE None
        IN  /\ op' = "predict_simple"
            /\ args' = [symbol |-> requested]
            /\ IF /\ cache_key \in DOMAIN prediction_cache
                  /\ current_time - prediction_cache[cache_key][2] < CACHE_DURATION
                  THEN /\ result' = Response(200, [success |-> TRUE, cached |-> TRUE,
                                                   data |-> prediction_cache[cache_key][1],
                                                   source |-> "cache"])
                       /\ calls' = {}
                       /\ UNCHANGED prediction_cache
                  ELSE /\ calls' = {"simple_prediction"}
                       /\ IF prediction.kind # "None"
                             THEN /\ prediction_cache' =
                                        Put(prediction_cache, cache_key,
                                            <<prediction, current_time>>)
                                  /\ result' = Response(200, [success |-> TRUE,
                                                              cached |-> FALSE,
                                                              data |-> prediction,
                                                              source |-> "fresh"])
                             ELSE /\ result' = Response(500, [success |-> FALSE,
                                                              error |-> "Unable to generate simple prediction"])
                                  /\ UNCHANGED prediction_cache
    /\ UNCHANGED <<options_cache, now, last_fresh, last_analysis, engine>>

(* A plausible slip: the analysis is kept in options_cache and served from *)
(* there when the same body is posted again.                               *)
AnalyzeOptionsStrategyMemoized ==
    /\ op = "idle"
    /\ \E data \in StrategyBodies :
        LET strategy_legs == Get(data, "legs", <<>>)
            current_price == Get(data, "currentPrice", 100)
        IN  /\ op' = "analyze_options_strategy"
            /\ args' = data
            /\ IF strategy_legs = <<>>
                  THEN /\ result' = Response(400, [success |-> FALSE,
                                                   error |-> "No strategy legs provided"])
                       /\ calls' = {}
                       /\ UNCHANGED options_cache
                  ELSE IF "analysis" \in DOMAIN options_cache
                          /\ options_cache["analysis"][2] = data
                  THEN /\ result' = options_cache["analysis"][1]
                       /\ calls' = {}
                       /\ UNCHANGED options_cache
                  ELSE \E analysis \in {analyze_strategy(strategy_legs,
                                                         Dollars(current_price))} :
                       \E response \in
                           {IF analysis.raised = "none"
                               THEN Response(200, [success |-> TRUE, data |-> analysis.value])
                               ELSE Response(500, [success |-> FALSE,
                                                   error |-> analysis.raised])} :
                       /\ result' = response
                       /\ calls' = {"analyze_strategy"}
                       /\ options_cache' = Put(options_cache, "analysis", <<response, data>>)
    /\ UNCHANGED <<prediction_cache, now, last_fresh, last_analysis, engine>>

(* analyze_options_strategy: 400 without legs; otherwise the analysis of   *)
(* the engine, or 500 with the exception it raised.                        *)
AnalyzeOptionsStrategy ==
    /\ op = "idle"
    /\ \E data \in StrategyBodies :
        LET strategy_legs == Get(data, "legs", <<>>)
            current_price == Get(data, "currentPrice", 100)
        IN  /\ op' = "analyze_options_strategy"
            /\ args' = data
            /\ IF strategy_legs = <<>>
                  THEN /\ result' = Response(400, [success |-> FALSE,
                                                   error |-> "No strategy legs provided"])
                       /\ calls' = {}
                  ELSE \E analysis \in {analyze_strategy(strategy_legs,
                                                         Dollars(current_price))} :
                       /\ result' = IF analysis.raised = "none"
                                       THEN Response(200, [success |-> TRUE,
                                                           data |-> analysis.value])
                                       ELSE Response(500, [success |-> FALSE,
                                                           error |-> analysis.raised])
                       /\ calls' = {"analyze_strategy"}
    /\ UNCHANGED <<service, engine>>

(* list(range(start, stop, step)) for a step above zero.                   *)
Range(start, stop, step) ==
    [i \in 1..(IF stop > start THEN (stop - start + step - 1) \div step ELSE 0) |->
        start + (i - 1) * step]

(* calculate_payoff_diagram.  current_price is in dollars; int(x)          *)
(* truncates, and range() raises ValueError when its step is zero.  The    *)
(* spots are whole dollars, handed to the engine as they are (here in      *)
(* ticks, like the strikes); the payoffs are in ticks.                     *)
CalculatePayoffDiagram ==
    /\ op = "idle"
    /\ \E data \in StrategyBodies :
        LET strategy_legs == Get(data, "legs", <<>>)
            current_price == Get(data, "currentPrice", 100)
            start         == (current_price * 7) \div 10
            stop          == (current_price * 13) \div 10
            step          == current_price \div 100
        IN  /\ op' = "calculate_payoff_diagram"
            /\ args' = data
            /\ IF step = 0
                  THEN /\ result' = Response(500, [success |-> FALSE,
                                                   error |-> "ValueError"])
                       /\ calls' = {}
                  ELSE \E spot_range \in {Range(start, stop, step)} :
                       \E payoffs \in
                           {calculate_strategy_payoff(strategy_legs,
                                [i \in DOMAIN spot_range |-> Dollars(spot_range[i])])} :
                       /\ result' = IF payoffs.raised = "none"
                                       THEN Response(200,
                                                [success |-> TRUE,
                                                 data |-> [spotPrices |-> spot_range,
                                                           payoffs |-> payoffs.value,
                                                           currentPrice |-> current_price]])
                                       ELSE Response(500, [success |-> FALSE,
                                                           error |-> payoffs.raised])
                       /\ calls' = {"calculate_strategy_payoff"}
    /\ UNCHANGED <<service, engine>>

(* clear_cache                                                             *)
ClearCache ==
    /\ op = "idle"
    /\ op' = "clear_cache"
    /\ args' = <<>>
    /\ prediction_cache' = <<>>
    /\ options_cache' = <<>>
    /\ result' = Response(200, [success |-> TRUE, message |-> "All caches cleared"])
    /\ calls' = {}
    /\ UNCHANGED <<now, last_fresh, last_analysis, engine>>

(* clear_prediction_cache                                                  *)
ClearPredictionCache ==
    /\ op = "idle"
    /\ op' = "clear_prediction_cache"
    /\ args' = <<>>
    /\ prediction_cache' = <<>>
    /\ result' = Response(200, [success |-> TRUE, message |-> "Prediction cache cleared"])
    /\ calls' = {}
    /\ UNCHANGED <<options_cache, now, last_fresh, last_analysis, engine>>

(* clear_options_cache                                                     *)
ClearOptionsCache ==
    /\ op = "idle"
    /\ op' = "clear_options_cache"
    /\ args' = <<>>
    /\ options_cache' = <<>>
    /\ result' = Response(200, [success |-> TRUE, message |-> "Options cache cleared"])
    /\ calls' = {}
    /\ UNCHANGED <<prediction_cache, now, last_fresh, last_analysis, engine>>

(* Time passes between two requests.                                       *)
AdvanceClock ==
    /\ op = "idle"
    /\ now + ClockStep <= MaxTicks * ClockStep
    /\ now' = now + ClockStep
    /\ UNCHANGED <<op, args, result, calls, options_cache, prediction_cache,
                   last_fresh, last_analysis, engine>>

(* The response is sent; the body of an analysis request is remembered.    *)
Respond ==
    /\ op # "idle"
    /\ op' = "idle"
    /\ args' = <<>>
    /\ result' = Returned(<<>>)
    /\ calls' = {}
    /\ last_analysis' = IF op = "analyze_options_strategy"
                           THEN [kind |-> "body", data |-> args] ELSE last_analysis
    /\ UNCHANGED <<options_cache, prediction_cache, now, last_fresh, engine>>

(* The strategy routes, with the routes that fill the caches.              *)
StrategyNext ==
    \/ AnalyzeOptionsStrategy
    \/ CalculatePayoffDiagram
    \/ GetOptionsChain
    \/ PredictSimple
    \/ Respond

StrategySpec == Init /\ [][StrategyNext]_vars

(* The chain route, the routes that clear the caches, and the clock.       *)
CacheNext ==
    \/ GetOptionsChain
    \/ PredictSimple
    \/ ClearCache
    \/ ClearPredictionCache
    \/ ClearOptionsCache
    \/ AdvanceClock
    \/ Respond

CacheSpec == Init /\ [][CacheNext]_vars

-----------------------------------------------------------------------------
(* The prediction service (app.py).  prediction_cache is here the          *)
(* dictionary of app.py.  A prediction is known by the symbol and the      *)
(* number of days it was generated for.                                    *)

cache_duration == 3600 * 24

is_cache_valid(timestamp) == now - timestamp < cache_duration

(* get_stock_prediction(symbol, days): the dictionary of the predictor,    *)
(* or None when the data cannot be fetched or the model not trained.       *)
get_stock_prediction(symbol, days, trained) ==
    IF trained THEN [kind |-> "prediction", symbol |-> symbol, days |-> days] ELSE None

(* predict_stock: the entry of f"{symbol}_365" when it is valid, else a    *)
(* prediction for min(days, 365) days, stored under that same key.         *)
PredictStock ==
    /\ op = "idle"
    /\ \E requested \in RequestedSymbols, query \in PredictQueries, trained \in BOOLEAN :
        LET symbol    == Upper(requested)
            cache_key == symbol \o "_365"
        IN  /\ op' = "predict_stock"
            /\ args' = [symbol |-> requested, query |-> query]
            /\ IF /\ cache_key \in DOMAIN prediction_cache
                  /\ is_cache_valid(prediction_cache[cache_key][2])
                  THEN /\ result' = Response(200, [success |-> TRUE,
                                                   data |-> prediction_cache[cache_key][1],
                                                   cached |-> TRUE])
                       /\ calls' = {}
                       /\ UNCHANGED prediction_cache
                  ELSE LET days       == Min(Get(query, "days", 365), 365)
                           prediction == get_stock_prediction(symbol, days, trained)
                       IN  /\ calls' = {"get_stock_prediction"}
                           /\ IF prediction.kind = "None"
                                 THEN /\ result' = Response(400, [success |-> FALSE,
                                                                  error |-> "Failed to generate prediction"])
                                      /\ UNCHANGED prediction_cache
                                 ELSE /\ prediction_cache' =
                                            Put(prediction_cache, cache_key,
                                                <<prediction, now>>)
                                      /\ result' = Response(200, [success |-> TRUE,
                                                                  data |-> prediction,
                                                                  cached |-> FALSE])
    /\ UNCHANGED <<options_cache, now, last_fresh, last_analysis, engine>>

(* The loop of predict_batch from the k-th symbol on: the cache and the    *)
(* results it leaves.  trained[k] tells whether the k-th prediction, if    *)
(* it is generated, succeeds.                                              *)
RECURSIVE BatchFrom(_, _, _, _, _, _)
BatchFrom(symbols, k, days, trained, cache, results) ==
    IF k > Len(symbols) THEN [cache |-> cache, results |-> results]
    ELSE
    LET symbol    == Upper(symbols[k])
        cache_key == symbol \o "_" \o ToString(days)
        prediction == get_stock_prediction(symbol, days, trained[k])
    IN  IF cache_key \in DOMAIN cache /\ is_cache_valid(cache[cache_key][2])
           THEN BatchFrom(symbols, k + 1, days, trained, cache,
                          Put(results, symbol, [success |-> TRUE,
                                                data |-> cache[cache_key][1],
                                                cached |-> TRUE]))
        ELSE IF prediction.kind # "None"
           THEN BatchFrom(symbols, k + 1, days, trained,
                          Put(cache, cache_key, <<prediction, now>>),
                          Put(results, symbol, [success |-> TRUE, data |-> prediction,
                                                cached |-> FALSE]))
        ELSE BatchFrom(symbols, k + 1, days, trained, cache,
                       Put(results, symbol, [success |-> FALSE,
                                             error |-> "Failed to generate prediction"]))

(* predict_batch: 400 without symbols, else the results of the loop.       *)
PredictBatch ==
    /\ op = "idle"
    /\ \E data \in BatchBodies :
        LET symbols == Get(data, "symbols", <<>>)
            days    == Get(data, "days", 365)
        IN  /\ op' = "predict_batch"
            /\ args' = data
            /\ IF symbols = <<>>
                  THEN /\ result' = Response(400, [success |-> FALSE,
                                                   error |-> "No symbols provided"])
                       /\ calls' = {}
                       /\ UNCHANGED prediction_cache
                  ELSE \E trained \in [DOMAIN symbols -> BOOLEAN] :
                       \E done \in {BatchFrom(symbols, 1, days, trained,
                                              prediction_cache, <<>>)} :
                       /\ prediction_cache' = done.cache
                       /\ result' = Response(200, [success |-> TRUE,
                                                   results |-> done.results])
                       /\ calls' = IF \E s \in DOMAIN done.results :
                                         ~("cached" \in DOMAIN done.results[s]
                                           /\ done.results[s].cached)
                                      THEN {"get_stock_prediction"} ELSE {}
    /\ UNCHANGED <<options_cache, now, last_fresh, last_analysis, engine>>

(* A day passes between two requests.                                      *)
AdvanceDay ==
    /\ op = "idle"
    /\ now < cache_duration
    /\ now' = now + cache_duration
    /\ UNCHANGED <<op, args, result, calls, options_cache, prediction_cache,
                   last_fresh, last_analysis, engine>>

PredictNext ==
    \/ PredictStock
    \/ PredictBatch
    \/ AdvanceDay
    \/ Respond

PredictSpec == Init /\ [][PredictNext]_vars

-----------------------------------------------------------------------------
(* Properties of the strategy analyzer.                                    *)

(* A call or put leg that is bought or sold, with its strike and premium.  *)
IsOptionLeg(leg) ==
    /\ {"action", "type", "strike", "premium"} \subseteq DOMAIN leg
    /\ leg.action \in {"buy", "sell"}
    /\ leg.type \in {"call", "put"}

AllOptionLegs(legs) == \A k \in DOMAIN legs : IsOptionLeg(legs[k])

PayoffCalled == op = "calculate_strategy_payoff"

AnalyzeCalled == op = "analyze_strategy"

(* c is x ticks rounded to the cent: |c - 10 x / 33| <= 1/2.               *)
IsCentsOf(c, x) == 2 * Abs(33 * c - 10 * x) <= 33

(* The value of one leg at spot S as the specification states it.          *)
SpecIntrinsic(leg, S) ==
    IF leg.type = "call"
       THEN (IF S > leg.strike THEN S - leg.strike ELSE 0)
       ELSE (IF leg.strike > S THEN leg.strike - S ELSE 0)

SpecLegValue(leg, S) ==
    LET n    == IF "contracts" \in DOMAIN leg THEN leg.contracts ELSE 1
        sign == IF leg.action = "buy" THEN 1 ELSE -1
    IN  sign * (SpecIntrinsic(leg, S) - leg.premium) * n * 100

RECURSIVE SpecPayoffTo(_, _, _)
SpecPayoffTo(legs, S, n) ==
    IF n = 0 THEN 0 ELSE SpecPayoffTo(legs, S, n - 1) + SpecLegValue(legs[n], S)

(* C1: calculate_strategy_payoff returns one value per spot, in the order  *)
(* of the spots, and the value at spot S is the sum over the legs of       *)
(* (intrinsic - premium) * contracts * 100 for a buy leg and of            *)
(* (premium - intrinsic) * contracts * 100 for a sell leg, contracts being *)
(* 1 when the leg has no such key.                                         *)
C1_PayoffPerSpot ==
    (PayoffCalled /\ AllOptionLegs(args.legs)) =>
        /\ result.raised = "none"
        /\ DOMAIN result.value = 1..Len(args.spots)
        /\ \A j \in 1..Len(args.spots) :
              result.value[j] = SpecPayoffTo(args.legs, args.spots[j], Len(args.legs))

(* C1, its case: two legs, one with and one without the key contracts, at  *)
(* several spots with different payoffs.                                   *)
C1_Witness ==
    /\ PayoffCalled
    /\ AllOptionLegs(args.legs)
    /\ Len(args.legs) = 2
    /\ "contracts" \in DOMAIN args.legs[1]
    /\ "contracts" \notin DOMAIN args.legs[2]
    /\ args.legs[1].action = "sell"
    /\ args.legs[2].action = "buy"
    /\ Len(args.spots) >= 3
    /\ result.raised = "none"
    /\ result.value[1] # result.value[2]
    /\ result.value[2] # result.value[3]

HasStockLeg(legs) == \E k \in DOMAIN legs : legs[k] = StockLeg

NonStockLegs(legs) == SelectSeq(legs, LAMBDA l : l # StockLeg)

(* C2: with a hold/stock leg in the list, calculate_strategy_payoff and    *)
(* analyze_strategy complete normally and return what they return for the  *)
(* list without the stock leg.                                             *)
C2_StockLegIgnored ==
    /\ (PayoffCalled /\ HasStockLeg(args.legs)) =>
          /\ result.raised = "none"
          /\ result = calculate_strategy_payoff(NonStockLegs(args.legs), args.spots)
    /\ (AnalyzeCalled /\ HasStockLeg(args.legs)) =>
          /\ result.raised = "none"
          /\ result = analyze_strategy(NonStockLegs(args.legs), args.current_price)

BullCallSpread ==
    <<[action |-> "buy", type |-> "call", strike |-> Dollars(95), premium |-> Tenths(50)],
      [action |-> "sell", type |-> "call", strike |-> Dollars(105), premium |-> Tenths(20)]>>

(* C3: for the bull call spread (buy a 95 call at 5, sell a 105 call at 2) *)
(* analyze_strategy reports netPremium = -300.                             *)
C3_BullCallNetPremium ==
    (AnalyzeCalled /\ args.legs = BullCallSpread) =>
        /\ result.raised = "none"
        /\ result.value.netPremium = (-300) * CentsPerDollar

(* The premiums received (sell legs) or paid (the other legs), in ticks.   *)
RECURSIVE PremiumOf(_, _, _)
PremiumOf(legs, sold, n) ==
    IF n = 0 THEN 0
    ELSE PremiumOf(legs, sold, n - 1)
         + (IF (legs[n].action = "sell") = sold
               THEN legs[n].premium * (IF "contracts" \in DOMAIN legs[n]
                                          THEN legs[n].contracts ELSE 1)
               ELSE 0)

NetCredit(legs) == PremiumOf(legs, TRUE, Len(legs)) - PremiumOf(legs, FALSE, Len(legs))

(* C4 as claimed: netPremium is the sum over the legs of premium *         *)
(* contracts, counted positive for a sell leg and negative otherwise,      *)
(* rounded to the cent, and it is positive exactly when more premium is    *)
(* received than paid.                                                     *)
C4_NetPremiumClaimed ==
    (AnalyzeCalled /\ AllOptionLegs(args.legs)) =>
        /\ result.raised = "none"
        /\ IsCentsOf(result.value.netPremium, NetCredit(args.legs))
        /\ (result.value.netPremium > 0) <=> (NetCredit(args.legs) > 0)

(* C4 as amended: netPremium is that sum rounded to the cent; it is never  *)
(* negative for a net credit nor positive for a net debit, and it is       *)
(* positive exactly when the net credit is more than half a cent.          *)
C4_NetPremium ==
    (AnalyzeCalled /\ AllOptionLegs(args.legs)) =>
        /\ result.raised = "none"
        /\ IsCentsOf(result.value.netPremium, NetCredit(args.legs))
        /\ NetCredit(args.legs) >= 0 => result.value.netPremium >= 0
        /\ NetCredit(args.legs) <= 0 => result.value.netPremium <= 0
        /\ (result.value.netPremium > 0) <=> (20 * NetCredit(args.legs) > 33)

(* C4, its case: a credit spread with a leg of several contracts.          *)
C4_Witness ==
    /\ AnalyzeCalled
    /\ AllOptionLegs(args.legs)
    /\ Len(args.legs) = 2
    /\ args.legs[1].action = "sell"
    /\ args.legs[2].action = "buy"
    /\ "contracts" \in DOMAIN args.legs[1]
    /\ args.legs[1].contracts > 1
    /\ result.raised = "none"
    /\ result.value.netPremium > 0

SweepContains(current_price, strike) ==
    /\ 7 * current_price <= 10 * strike
    /\ 10 * strike <= 13 * current_price

(* C5: for the bull call spread analyzed at a current price whose sweep    *)
(* contains both strikes, there is exactly one breakeven, 98.00, and       *)
(* maxProfit = 700, maxLoss = -300.                                        *)
C5_BullCallSpread ==
    (/\ AnalyzeCalled
     /\ args.legs = BullCallSpread
     /\ SweepContains(args.current_price, Dollars(95))
     /\ SweepContains(args.current_price, Dollars(105))) =>
        /\ result.raised = "none"
        /\ result.value.breakevens = <<98 * CentsPerDollar>>
        /\ result.value.maxProfit = Number(700 * CentsPerDollar)
        /\ result.value.maxLoss = Number((-300) * CentsPerDollar)

(* C5, its case: the spread analyzed at a current price of 100.            *)
C5_Witness ==
    /\ AnalyzeCalled
    /\ args.legs = BullCallSpread
    /\ args.current_price = Dollars(100)
    /\ result.raised = "none"
    /\ Len(result.value.breakevens) = 1

(* The payoff of the legs at a spot x given in 1/6600 dollar: a tick is 20 *)
(* and a cent is 66 of these.                                              *)
FineLegs(legs) ==
    [k \in DOMAIN legs |-> [legs[k] EXCEPT !.strike = 20 * @, !.premium = 20 * @]]

(* The payoff, which is continuous and linear between strikes, has a zero  *)
(* within half a cent of b cents.                                          *)
ZeroWithinRounding(legs, b) ==
    LET lo   == 66 * b - 33
        hi   == 66 * b + 33
        pts  == {lo, hi} \cup {x \in {20 * legs[k].strike : k \in DOMAIN legs} :
                                  lo <= x /\ x <= hi}
        vals == {TotalPayoffFrom(FineLegs(legs), x, 1) : x \in pts}
    IN  (\E v \in vals : v <= 0) /\ (\E v \in vals : v >= 0)

(* C6: every breakeven reported by analyze_strategy is a spot at which the *)
(* payoff of the legs is zero, up to the rounding to the cent.             *)
C6_BreakevenIsZero ==
    (AnalyzeCalled /\ AllOptionLegs(args.legs)) =>
        /\ result.raised = "none"
        /\ \A k \in DOMAIN result.value.breakevens :
              ZeroWithinRounding(args.legs, result.value.breakevens[k])

(* C7: maxProfit is the largest and maxLoss the smallest of the 100        *)
(* sampled payoffs, rounded to the cent, and neither is 'Unlimited'.       *)
C7_SampledExtremes ==
    (AnalyzeCalled /\ AllOptionLegs(args.legs)) =>
        /\ result.raised = "none"
        /\ DOMAIN result.value.payoffs = 1..NumSamples
        /\ result.value.maxProfit.kind = "number"
        /\ result.value.maxLoss.kind = "number"
        /\ \E i \in 1..NumSamples :
              /\ \A j \in 1..NumSamples : result.value.payoffs[j] <= result.value.payoffs[i]
              /\ IsCentsOf(result.value.maxProfit.cents, result.value.payoffs[i])
        /\ \E i \in 1..NumSamples :
              /\ \A j \in 1..NumSamples : result.value.payoffs[j] >= result.value.payoffs[i]
              /\ IsCentsOf(result.value.maxLoss.cents, result.value.payoffs[i])

(* C7, its case: one long call whose payoff still rises at the last        *)
(* sample, so that it is unbounded outside the sweep.                      *)
C7_Witness ==
    /\ AnalyzeCalled
    /\ Len(args.legs) = 1
    /\ IsOptionLeg(args.legs[1])
    /\ args.legs[1].action = "buy"
    /\ args.legs[1].type = "call"
    /\ result.raised = "none"
    /\ result.value.payoffs[NumSamples] > result.value.payoffs[NumSamples - 1]
    /\ result.value.maxProfit.kind = "number"

(* A long straddle: one call and one put bought at the same strike.        *)
IsLongStraddle(legs) ==
    /\ Len(legs) = 2
    /\ AllOptionLegs(legs)
    /\ \A k \in 1..2 : legs[k].action = "buy" /\ "contracts" \notin DOMAIN legs[k]
    /\ {legs[1].type, legs[2].type} = {"call", "put"}
    /\ legs[1].strike = legs[2].strike

(* C8: the payoff of a long straddle with premiums c and p is at least     *)
(* -(c + p) * 100 at every spot, and is -(c + p) * 100 exactly at the      *)
(* strike.                                                                 *)
C8_StraddleMinimum ==
    (PayoffCalled /\ IsLongStraddle(args.legs)) =>
        /\ result.raised = "none"
        /\ \A j \in 1..Len(args.spots) :
              LET floor == -(args.legs[1].premium + args.legs[2].premium) * 100
              IN  /\ result.value[j] >= floor
                  /\ (result.value[j] = floor) <=> (args.spots[j] = args.legs[1].strike)

(* C8, its case: a straddle with different premiums, priced at its strike  *)
(* and at spots on both sides of it.                                       *)
C8_Witness ==
    /\ PayoffCalled
    /\ IsLongStraddle(args.legs)
    /\ args.legs[1].premium # args.legs[2].premium
    /\ result.raised = "none"
    /\ \E j \in 1..Len(args.spots) : args.spots[j] = args.legs[1].strike
    /\ \E j \in 1..Len(args.spots) : args.spots[j] < args.legs[1].strike
    /\ \E j \in 1..Len(args.spots) : args.spots[j] > args.legs[1].strike

-----------------------------------------------------------------------------
(* Properties of the pricing kernel.                                       *)

CallPriced == op = "black_scholes_call"

PutPriced == op = "black_scholes_put"

(* C9: for T <= 0 black_scholes_call returns max(S - K, 0) and             *)
(* black_scholes_put returns max(K - S, 0), whatever r and sigma are, the  *)
(* strike not being discounted.                                            *)
C9_ExpiredIsIntrinsic ==
    /\ (CallPriced /\ args.T <= 0) =>
          /\ result.raised = "none"
          /\ result.value = (IF args.S > args.K THEN args.S - args.K ELSE 0)
    /\ (PutPriced /\ args.T <= 0) =>
          /\ result.raised = "none"
          /\ result.value = (IF args.K > args.S THEN args.K - args.S ELSE 0)

(* C9, its case: an expired call in the money, priced with a positive rate *)
(* and sigma = 0.                                                          *)
C9_Witness ==
    /\ CallPriced
    /\ args.T < 0
    /\ args.sigma = 0
    /\ args.r > 0
    /\ args.S > args.K
    /\ result.value = args.S - args.K

(* C10: the price returned by black_scholes_call and black_scholes_put is  *)
(* never negative, for S > 0, K > 0, sigma > 0 and every T.                *)
C10_PriceNotNegative ==
    ((CallPriced \/ PutPriced) /\ args.S > 0 /\ args.K > 0 /\ args.sigma > 0) =>
        /\ result.raised = "none"
        /\ result.value >= 0

(* C10, its case: an expired put out of the money, whose K - S is          *)
(* negative, priced at 0.                                                  *)
C10_Witness ==
    /\ PutPriced
    /\ args.T <= 0
    /\ args.sigma > 0
    /\ args.S > args.K
    /\ result.value = 0

-----------------------------------------------------------------------------
(* Properties of the Greeks and of the volatility solver.                  *)

GreeksCalled == op = "calculate_greeks"

SolverCalled == op = "implied_volatility"

(* C11: for T <= 0 calculate_greeks returns delta = 1.0 for a call with    *)
(* S > K and delta = 0.0 otherwise (every put, calls with S <= K), and     *)
(* gamma = theta = vega = rho = 0.0.                                       *)
C11_ExpiredGreeks ==
    (GreeksCalled /\ args.T <= 0) =>
        /\ result.raised = "none"
        /\ (args.option_type = "call" /\ args.S > args.K) => result.value.delta = FP
        /\ (args.option_type # "call" \/ args.S <= args.K) => result.value.delta = 0
        /\ result.value.gamma = 0
        /\ result.value.theta = 0
        /\ result.value.vega = 0
        /\ result.value.rho = 0

(* C11, its case: an expired put in the money, whose delta is 0.0.         *)
C11_Witness ==
    /\ GreeksCalled
    /\ args.T <= 0
    /\ args.option_type = "put"
    /\ args.S < args.K
    /\ result.value.delta = 0

(* C12, as claimed: implied_volatility returns, for every input, a         *)
(* volatility strictly between 0 and 5.                                    *)
C12_StrictlyInside ==
    SolverCalled =>
        /\ result.raised = "none"
        /\ 0 < result.value
        /\ result.value < 5 * FP

(* C12, as the code has it: implied_volatility returns 0.0 for T <= 0 and, *)
(* for T > 0, a volatility from 0.001 to 5.0, both ends included.          *)
C12_VolatilityRange ==
    SolverCalled =>
        /\ result.raised = "none"
        /\ args.T <= 0 => result.value = 0
        /\ args.T > 0 => (result.value >= 1 * (FP \div 1000) /\ result.value <= 5 * FP)

(* C12, its case: the market price is the price at sigma = 5.0, and 5.0 is *)
(* returned.                                                               *)
C12_Witness ==
    /\ SolverCalled
    /\ args.T > 0
    /\ result.value = 5 * FP

(* C13: for T <= 0 implied_volatility returns 0.0 without pricing the      *)
(* option or invoking the root-finder, whatever the market price is.       *)
C13_ExpiredReturnsZero ==
    (SolverCalled /\ args.T <= 0) =>
        /\ result.raised = "none"
        /\ result.value = 0
        /\ calls = {}

(* C13, its case: an option expiring now (T = 0) with a positive market    *)
(* price.                                                                  *)
C13_Witness ==
    /\ SolverCalled
    /\ args.T = 0
    /\ args.market_price > 0
    /\ result.value = 0
    /\ calls = {}

(* The objective of the call in progress at sigma: the price of the option *)
(* less the market price.                                                  *)
Residual(sigma) ==
    (IF args.option_type = "call"
        THEN black_scholes_call(args.S, args.K, args.T, args.r, sigma)
        ELSE black_scholes_put(args.S, args.K, args.T, args.r, sigma))
    - args.market_price

(* The root-finder fails: the objective has the same sign at both ends of  *)
(* the bracket, or the iterations do not converge.                         *)
SolverFails ==
    LET fa == Residual(1 * (FP \div 1000))
        fb == Residual(5 * FP)
    IN  \/ (fa > 0 /\ fb > 0)
        \/ (fa < 0 /\ fb < 0)
        \/ ((fa > 0 /\ fb < 0) \/ (fa < 0 /\ fb > 0)) /\ ~args.converges

(* sigma is a root of the objective to four decimals: the objective is     *)
(* zero there or changes sign next to it.                                  *)
IsRoot(sigma) ==
    \/ Residual(sigma) = 0
    \/ Residual(sigma - 1) < 0 /\ Residual(sigma) > 0
    \/ Residual(sigma - 1) > 0 /\ Residual(sigma) < 0
    \/ Residual(sigma) < 0 /\ Residual(sigma + 1) > 0
    \/ Residual(sigma) > 0 /\ Residual(sigma + 1) < 0

(* C14: for T > 0, when the root-finder fails implied_volatility returns   *)
(* 0.20 and raises nothing; when it succeeds the result is a root in       *)
(* [0.001, 5.0], to four decimals.                                         *)
C14_FailureDefaults ==
    (SolverCalled /\ args.T > 0) =>
        /\ result.raised = "none"
        /\ SolverFails => result.value = 2 * (FP \div 10)
        /\ ~SolverFails =>
              /\ result.value >= 1 * (FP \div 1000)
              /\ result.value <= 5 * FP
              /\ IsRoot(result.value)

(* C14, its case: the ends of the bracket have opposite signs and the      *)
(* iterations do not converge; 0.20 is returned.                           *)
C14_Witness ==
    /\ SolverCalled
    /\ args.T > 0
    /\ ~args.converges
    /\ Residual(1 * (FP \div 1000)) < 0
    /\ Residual(5 * FP) > 0
    /\ result.raised = "none"
    /\ result.value = 2 * (FP \div 10)

-----------------------------------------------------------------------------
(* Properties of the chain normalizer.                                     *)

ChainCalled == op = "get_yahoo_options_data"

(* The source answered and listed an expiration.                           *)
SourceListed == args.source.info.raised = "none" /\ args.source.options # <<>>

(* The expirations the normalizer is to process: the first six listed.     *)
FirstSix ==
    {args.source.options[k] :
        k \in {j \in DOMAIN args.source.options : j <= 6}}

NumericColumns == {"strike", "lastPrice", "bid", "ask", "volume", "openInterest"}

(* The value of a column of a raw row after coercion: the number, or the   *)
(* default when it is missing, null, NaN or not a number.                  *)
Coerced(row, column) ==
    IF column \in DOMAIN row /\ row[column].kind = "number"
       THEN row[column].value ELSE 0

(* q is the quote of the raw row.                                          *)
QuoteOf(q, row) == \A column \in NumericColumns : q[column] = Coerced(row, column)

ValuedByDefault(q) ==
    /\ q.impliedVolatility = 2 * (FP \div 10)
    /\ q.theoreticalPrice = 0
    /\ q.delta = 0 /\ q.gamma = 0 /\ q.theta = 0 /\ q.vega = 0 /\ q.rho = 0

(* The quotes are the quotes of the rows, each row once.                   *)
PermutationOfRows(quotes, rows) ==
    /\ Len(quotes) = Len(rows)
    /\ \E p \in [DOMAIN rows -> DOMAIN rows] :
          /\ \A i, j \in DOMAIN rows : i # j => p[i] # p[j]
          /\ \A i \in DOMAIN rows : QuoteOf(quotes[p[i]], rows[i])

NonDecreasing(quotes) ==
    \A i \in DOMAIN quotes : i < Len(quotes) => quotes[i].strike <= quotes[i + 1].strike

(* A column of the row is missing, null or not a number.                   *)
Malformed(row, column) ==
    column \notin DOMAIN row \/ row[column].kind \in {"None", "str"}

(* C15, as claimed: every numeric column of a raw row is coerced before    *)
(* use, so every row of every fetched expiration is emitted, a column that *)
(* is missing, null or not a number at its default, a row without a usable *)
(* lastPrice with the default valuation; no row and no expiration is lost. *)
C15_EveryColumnCoerced ==
    (ChainCalled /\ SourceListed) =>
        /\ result.raised = "none"
        /\ result.value.kind = "chain"
        /\ \A d \in FirstSix :
              args.source.chain[d].raised = "none" =>
                 /\ d \in DOMAIN result.value.chains
                 /\ PermutationOfRows(result.value.chains[d].calls,
                                      args.source.chain[d].value.calls)
                 /\ PermutationOfRows(result.value.chains[d].puts,
                                      args.source.chain[d].value.puts)
                 /\ \A k \in DOMAIN args.source.chain[d].value.calls :
                       Malformed(args.source.chain[d].value.calls[k], "lastPrice") =>
                          \E j \in DOMAIN result.value.chains[d].calls :
                             /\ QuoteOf(result.value.chains[d].calls[j],
                                        args.source.chain[d].value.calls[k])
                             /\ ValuedByDefault(result.value.chains[d].calls[j])

(* The row has every column, and every column but bid and volume is a      *)
(* number.                                                                 *)
ValidButBidAndVolume(row) ==
    /\ DOMAIN row = NumericColumns
    /\ \A column \in NumericColumns \ {"bid", "volume"} : row[column].kind = "number"

AllValidButBidAndVolume(rows) == \A k \in DOMAIN rows : ValidButBidAndVolume(rows[k])

(* C16: a chain with a row whose bid is null and whose volume is "N/A",    *)
(* the other columns valid, is normalized without raising; the quote of    *)
(* the row has bid = 0.0 and volume = 0 and is in the output of its        *)
(* expiration, which is sorted by strike.                                  *)
C16_MalformedRowKept ==
    (ChainCalled /\ SourceListed) =>
        /\ result.raised = "none"
        /\ \A d \in FirstSix :
              (/\ args.source.chain[d].raised = "none"
               /\ AllValidButBidAndVolume(args.source.chain[d].value.calls)
               /\ AllValidButBidAndVolume(args.source.chain[d].value.puts)) =>
                 /\ d \in DOMAIN result.value.chains
                 /\ NonDecreasing(result.value.chains[d].calls)
                 /\ \A k \in DOMAIN args.source.chain[d].value.calls :
                      LET row == args.source.chain[d].value.calls[k]
                      IN  (row.bid = None /\ row.volume = Text) =>
                             \E j \in DOMAIN result.value.chains[d].calls :
                                LET q == result.value.chains[d].calls[j]
                                IN  /\ q.strike = row.strike.value
                                    /\ q.lastPrice = row.lastPrice.value
                                    /\ q.bid = 0
                                    /\ q.volume = 0

(* C16, its case: the malformed row was delivered first and has the larger *)
(* strike; its quote is the second of the calls.                           *)
C16_Witness ==
    /\ ChainCalled
    /\ result.raised = "none"
    /\ result.value.kind = "chain"
    /\ 120 \in DOMAIN result.value.chains
    /\ args.source.chain[120].value.calls[1].bid = None
    /\ args.source.chain[120].value.calls[1].volume = Text
    /\ Len(result.value.chains[120].calls) = 2
    /\ result.value.chains[120].calls[2].strike
          = args.source.chain[120].value.calls[1].strike.value
    /\ result.value.chains[120].calls[2].bid = 0
    /\ result.value.chains[120].calls[2].volume = 0

(* C17: in every chain returned, for every expiration, the calls and the   *)
(* puts are each non-decreasing in strike and each a permutation of the    *)
(* rows processed for that expiration.                                     *)
C17_SortedPermutation ==
    (ChainCalled /\ result.raised = "none" /\ result.value.kind = "chain") =>
        \A d \in DOMAIN result.value.chains :
            /\ NonDecreasing(result.value.chains[d].calls)
            /\ NonDecreasing(result.value.chains[d].puts)
            /\ PermutationOfRows(result.value.chains[d].calls,
                                 args.source.chain[d].value.calls)
            /\ PermutationOfRows(result.value.chains[d].puts,
                                 args.source.chain[d].value.puts)

(* C17, its case: three calls delivered with the strikes 100, 100, 95; the *)
(* output has them as 95, 100, 100, the two at 100 in the order delivered. *)
C17_Witness ==
    /\ ChainCalled
    /\ result.raised = "none"
    /\ result.value.kind = "chain"
    /\ 91 \in DOMAIN result.value.chains
    /\ Len(result.value.chains[91].calls) = 3
    /\ args.source.chain[91].value.calls[1].strike.value
          > args.source.chain[91].value.calls[3].strike.value
    /\ result.value.chains[91].calls[1].strike < result.value.chains[91].calls[2].strike
    /\ result.value.chains[91].calls[2].strike = result.value.chains[91].calls[3].strike
    /\ result.value.chains[91].calls[2].bid = args.source.chain[91].value.calls[1].bid.value
    /\ result.value.chains[91].calls[3].bid = args.source.chain[91].value.calls[2].bid.value

(* Processing the row raises: the strike is missing, null or not a number, *)
(* or the last price is null or not a number.                              *)
RowFails(row) ==
    \/ Malformed(row, "strike")
    \/ "lastPrice" \in DOMAIN row /\ row.lastPrice.kind \in {"None", "str"}

(* Fetching or processing the expiration fails.                            *)
ExpirationFails(d) ==
    \/ args.source.chain[d].raised # "none"
    \/ \E k \in DOMAIN args.source.chain[d].value.calls :
          RowFails(args.source.chain[d].value.calls[k])
    \/ \E k \in DOMAIN args.source.chain[d].value.puts :
          RowFails(args.source.chain[d].value.puts[k])

(* C18: when fetching or processing an expiration fails, that expiration   *)
(* is left out of the result, nothing is raised, and every other           *)
(* expiration among the first six is in the chain returned, with its rows. *)
C18_PartialSuccess ==
    (ChainCalled /\ SourceListed) =>
        /\ result.raised = "none"
        /\ result.value.kind = "chain"
        /\ \A d \in FirstSix :
              /\ ExpirationFails(d) => d \notin DOMAIN result.value.chains
              /\ ~ExpirationFails(d) =>
                    /\ d \in DOMAIN result.value.chains
                    /\ Len(result.value.chains[d].calls)
                          = Len(args.source.chain[d].value.calls)
                    /\ Len(result.value.chains[d].puts)
                          = Len(args.source.chain[d].value.puts)

(* C18, its case: three expirations, the fetch of the second fails, the    *)
(* first and the third are returned with their rows.                       *)
C18_Witness ==
    /\ ChainCalled
    /\ SourceListed
    /\ Len(args.source.options) = 3
    /\ args.source.chain[args.source.options[2]].raised # "none"
    /\ result.raised = "none"
    /\ result.value.kind = "chain"
    /\ DOMAIN result.value.chains = {args.source.options[1], args.source.options[3]}
    /\ Len(result.value.chains[args.source.options[1]].calls) = 2
    /\ Len(result.value.chains[args.source.options[3]].puts) = 2

-----------------------------------------------------------------------------
(* Properties of the engine as a whole.                                    *)

C20_PutCallParity ==
    ((CallPriced \/ PutPriced) /\ args.S > 0 /\ args.K > 0 /\ args.T > 0 /\ args.sigma > 0) =>
        LET call   == IF CallPriced THEN result.value
                      ELSE black_scholes_call(args.S, args.K, args.T, args.r, args.sigma)
            put    == IF PutPriced THEN result.value
                      ELSE black_scholes_put(args.S, args.K, args.T, args.r, args.sigma)
            parity == args.S - MulFP(args.K, ExpFP(-MulFP(args.r, args.T)))
        IN  /\ call - put - parity <= 2
            /\ parity - (call - put) <= 2

(* C20, its case: a put priced with a positive rate and time left, out of  *)
(* the money, where the discounting of the strike shows.                   *)
C20_Witness ==
    /\ PutPriced
    /\ args.T > 0
    /\ args.r > 0
    /\ args.sigma > 0
    /\ args.S > args.K
    /\ result.value > 0

-----------------------------------------------------------------------------
(* The Greeks, with time left and without.                                 *)

(* C21: for S > 0, K > 0, sigma > 0 and any T, the T <= 0 included, the    *)
(* delta calculate_greeks returns lies in [0, 1] for a call and in [-1, 0] *)
(* for a put.                                                              *)
C21_DeltaBounds ==
    (GreeksCalled /\ args.S > 0 /\ args.K > 0 /\ args.sigma > 0) =>
        /\ result.raised = "none"
        /\ args.option_type = "call" =>
               (result.value.delta >= 0 /\ result.value.delta <= FP)
        /\ args.option_type = "put" =>
               (result.value.delta >= -FP /\ result.value.delta <= 0)

(* C21, its case: a put with time left whose delta is strictly inside      *)
(* (-1, 0).                                                                *)
C21_Witness ==
    /\ GreeksCalled
    /\ args.S > 0 /\ args.K > 0 /\ args.sigma > 0
    /\ args.T > 0
    /\ args.option_type = "put"
    /\ result.value.delta < 0
    /\ result.value.delta > -FP

(* The option type calculate_greeks was not called with.                   *)
OtherType == IF args.option_type = "call" THEN "put" ELSE "call"

(* C22: for the same S, K, T, r and sigma, calculate_greeks returns the    *)
(* same gamma and the same vega for a call and for a put, and neither is   *)
(* negative, for T > 0 and for T <= 0.                                     *)
C22_GammaVegaShared ==
    GreeksCalled =>
        LET other == calculate_greeks(args.S, args.K, args.T, args.r, args.sigma, OtherType)
        IN  /\ result.raised = "none"
            /\ result.value.gamma = other.gamma
            /\ result.value.vega = other.vega
            /\ result.value.gamma >= 0
            /\ result.value.vega >= 0

(* C22, its case: a put with time left whose gamma and vega are positive.  *)
C22_Witness ==
    /\ GreeksCalled
    /\ args.T > 0
    /\ args.option_type = "put"
    /\ result.value.gamma > 0
    /\ result.value.vega > 0

-----------------------------------------------------------------------------
(* The scan for breakevens.                                                *)

(* The pairs (i, i + 1) of the returned payoffs for which a breakeven is   *)
(* to be recorded.                                                         *)
ClaimedPairs ==
    {i \in 1..(Len(result.value.payoffs) - 1) :
        \/ result.value.payoffs[i] <= 0 /\ result.value.payoffs[i + 1] > 0
        \/ result.value.payoffs[i] >= 0 /\ result.value.payoffs[i + 1] < 0}

(* The k-th of the claimed pairs, counted from the left.                   *)
ClaimedPair(k) ==
    CHOOSE i \in ClaimedPairs : Cardinality({j \in ClaimedPairs : j < i}) = k - 1

(* C23: analyze_strategy records exactly one breakeven for each adjacent   *)
(* pair with (payoff[i] <= 0 and payoff[i+1] > 0) or (payoff[i] >= 0 and   *)
(* payoff[i+1] < 0) and none for any other pair, and the list of the       *)
(* breakevens is in non-decreasing order of spot: there are as many        *)
(* breakevens as such pairs, and the further to the right the breakeven    *)
(* the further to the right its pair.                                      *)
C23_OnePerCrossing ==
    (AnalyzeCalled /\ result.raised = "none") =>
        LET breakevens == result.value.breakevens
        IN  /\ Len(breakevens) = Cardinality(ClaimedPairs)
            /\ \A k \in 1..(Len(breakevens) - 1) : breakevens[k] <= breakevens[k + 1]

(* C23, its case: a sweep the payoff crosses twice, down and up again,     *)
(* with the two breakevens reported apart.                                 *)
C23_Witness ==
    /\ AnalyzeCalled
    /\ result.raised = "none"
    /\ Len(result.value.breakevens) = 2
    /\ result.value.breakevens[1] < result.value.breakevens[2]
    /\ result.value.payoffs[ClaimedPair(1)] > 0
    /\ result.value.payoffs[ClaimedPair(2) + 1] > 0

(* C29: the interpolation of a breakeven is always well defined.  For      *)
(* every adjacent pair satisfying the crossing condition the denominator   *)
(* payoff[i+1] - payoff[i] is not zero and the fraction -payoff[i] /       *)
(* (payoff[i+1] - payoff[i]) of the step is in [0, 1), so that the         *)
(* interpolated spot lies in [spot[i], spot[i+1]) and the breakeven        *)
(* reported for the pair, its rounding to cents, between the roundings of  *)
(* the two samples; for the empty leg list no breakeven is reported.       *)
C29_InterpolationDefined ==
    (AnalyzeCalled /\ result.raised = "none") =>
        LET payoffs    == result.value.payoffs
            spot_range == result.value.spotRange
            breakevens == result.value.breakevens
        IN  /\ \A i \in ClaimedPairs :
                  LET dp == payoffs[i + 1] - payoffs[i]
                  IN  /\ dp # 0
                      /\ dp > 0 => (-payoffs[i] >= 0 /\ -payoffs[i] < dp)
                      /\ dp < 0 => (payoffs[i] >= 0 /\ payoffs[i] < -dp)
                      /\ spot_range[i] < spot_range[i + 1]
            /\ Len(breakevens) = Cardinality(ClaimedPairs) =>
                  \A k \in 1..Len(breakevens) :
                      /\ breakevens[k] >= Round2(spot_range[ClaimedPair(k)], 0, 1)
                      /\ breakevens[k] <= Round2(spot_range[ClaimedPair(k) + 1], 0, 1)
            /\ args.legs = <<>> => breakevens = <<>>

(* C29, its case: a pair whose left payoff is not zero, so that the        *)
(* breakeven is interpolated strictly inside the step.                     *)
C29_Witness ==
    /\ AnalyzeCalled
    /\ result.raised = "none"
    /\ Len(result.value.breakevens) >= 1
    /\ result.value.payoffs[ClaimedPair(1)] # 0
    /\ result.value.breakevens[1] > Round2(result.value.spotRange[ClaimedPair(1)], 0, 1)
    /\ result.value.breakevens[1] < Round2(result.value.spotRange[ClaimedPair(1) + 1], 0, 1)

-----------------------------------------------------------------------------
(* The valuation of the rows and the limit on the expirations.             *)

(* The raw row has a last price above zero and its expiration d time left. *)
RowValued(row, d) ==
    /\ "lastPrice" \in DOMAIN row
    /\ row.lastPrice.kind = "number"
    /\ row.lastPrice.value > 0
    /\ TimeToExpiration(d) > 0

(* The quote q of the expiration d carries what the solver, the kernel and *)
(* the Greeks give for it.                                                 *)
ValuedBySolver(q, d, option_type) ==
    LET current == result.value.currentPrice
        tte     == result.value.chains[d].timeToExpiration
        iv      == implied_volatility(q.lastPrice, current, q.strike, tte, risk_free_rate,
                                      option_type, args.converges).value
        greeks  == calculate_greeks(current, q.strike, tte, risk_free_rate, iv, option_type)
    IN  /\ q.impliedVolatility = iv
        /\ q.theoreticalPrice =
               (IF option_type = "call"
                   THEN black_scholes_call(current, q.strike, tte, risk_free_rate, iv)
                   ELSE black_scholes_put(current, q.strike, tte, risk_free_rate, iv))
        /\ q.delta = greeks.delta /\ q.gamma = greeks.gamma /\ q.theta = greeks.theta
        /\ q.vega = greeks.vega /\ q.rho = greeks.rho
        /\ ~ValuedByDefault(q)

(* Every raw row of the expiration d has its quote among the quotes, with  *)
(* the valuation its last price and the time left ask for.                 *)
RowsValuedAsClaimed(quotes, rows, d, option_type) ==
    \A k \in DOMAIN rows :
        \E j \in DOMAIN quotes :
            /\ QuoteOf(quotes[j], rows[k])
            /\ RowValued(rows[k], d) => ValuedBySolver(quotes[j], d, option_type)
            /\ ~RowValued(rows[k], d) => ValuedByDefault(quotes[j])

(* The raw rows of the expirations processed, those that failed included.  *)
RowsProcessed ==
    UNION {{<<d, args.source.chain[d].value.calls[k]>> :
                k \in DOMAIN args.source.chain[d].value.calls}
           \cup {<<d, args.source.chain[d].value.puts[k]>> :
                k \in DOMAIN args.source.chain[d].value.puts} :
           d \in {e \in FirstSix : args.source.chain[e].raised = "none"}}

(* C24: a row is valued with the solver and the kernel if and only if its  *)
(* lastPrice > 0 and the time to its expiration > 0; every other quote has *)
(* impliedVolatility = 0.20, theoreticalPrice = 0 and the five Greeks = 0, *)
(* and when no row processed qualifies the solver is not called.           *)
C24_ValuedIffPricedAndLive ==
    (ChainCalled /\ result.raised = "none" /\ result.value.kind = "chain") =>
        /\ \A d \in DOMAIN result.value.chains :
              /\ RowsValuedAsClaimed(result.value.chains[d].calls,
                                     args.source.chain[d].value.calls, d, "call")
              /\ RowsValuedAsClaimed(result.value.chains[d].puts,
                                     args.source.chain[d].value.puts, d, "put")
        /\ (\A p \in RowsProcessed : ~RowValued(p[2], p[1])) =>
              "implied_volatility" \notin calls
        /\ (\E d \in DOMAIN result.value.chains :
               \E p \in RowsProcessed : p[1] = d /\ RowValued(p[2], d)) =>
              "implied_volatility" \in calls

(* C24, its case: an expiration that has passed, whose rows have a last    *)
(* price, and whose quotes carry the defaults, the solver not called.      *)
C24_Witness ==
    /\ ChainCalled
    /\ result.raised = "none"
    /\ result.value.kind = "chain"
    /\ DOMAIN result.value.chains = {-1}
    /\ result.value.chains[-1].calls[1].lastPrice > 0
    /\ ValuedByDefault(result.value.chains[-1].calls[1])
    /\ "implied_volatility" \notin calls

(* C25: the keys of the chains returned are among the first six entries of *)
(* expirationDates, also when expirationDates lists more dates.            *)
C25_FirstSixOnly ==
    (ChainCalled /\ result.raised = "none" /\ result.value.kind = "chain") =>
        /\ result.value.expirationDates = args.source.options
        /\ DOMAIN result.value.chains \subseteq
               {result.value.expirationDates[k] :
                    k \in {j \in DOMAIN result.value.expirationDates : j <= 6}}

(* C25, its case: seven dates listed, the seventh a chain that would have  *)
(* been processed without fault, and not among the chains returned.        *)
C25_Witness ==
    /\ ChainCalled
    /\ result.raised = "none"
    /\ result.value.kind = "chain"
    /\ Len(result.value.expirationDates) = 7
    /\ args.source.chain[result.value.expirationDates[7]].raised = "none"
    /\ result.value.expirationDates[7] \notin DOMAIN result.value.chains
    /\ result.value.chains # <<>>

-----------------------------------------------------------------------------
(* The strategy routes of the options service (StrategySpec).              *)

PayoffRequested == op = "calculate_payoff_diagram"

AnalysisRequested == op = "analyze_options_strategy"

(* The legs and the current price of the request, with the defaults of the *)
(* handlers.                                                               *)
RequestedLegs == Get(args, "legs", <<>>)

RequestedPrice == Get(args, "currentPrice", 100)

WellFormedLegs == \A k \in DOMAIN RequestedLegs : ~LegKeyError(RequestedLegs[k])

(* C26, as claimed: /options-payoff succeeds for every positive current    *)
(* price, and the spot prices returned run from 70% of the current price   *)
(* to 130% of it (the end left out, as range() does) in steps of 1% of it, *)
(* with one payoff for each spot price.                                    *)
C26_PayoffDiagramSucceeds ==
    (PayoffRequested /\ RequestedPrice > 0 /\ WellFormedLegs) =>
        /\ result.value.status = 200
        /\ LET spots   == result.value.data.spotPrices
               payoffs == result.value.data.payoffs
           IN  /\ Len(payoffs) = Len(spots)
               /\ spots # <<>>
               /\ 10 * spots[1] = 7 * RequestedPrice
               /\ 10 * spots[Len(spots)] < 13 * RequestedPrice
               /\ 100 * spots[Len(spots)] + RequestedPrice >= 130 * RequestedPrice
               /\ \A i \in 1..(Len(spots) - 1) :
                     100 * (spots[i + 1] - spots[i]) = RequestedPrice

-----------------------------------------------------------------------------
(* The cache of the chains (CacheSpec).                                    *)

ChainRequested == op = "get_options_chain"

ServedFromCache == ChainRequested /\ result.value.status = 200 /\ result.value.cached

(* C28: a response marked cached for a symbol carries the chain of the     *)
(* most recent successful fresh fetch for that symbol, which is the chain  *)
(* of the entry of the symbol, and the entry is less than 3600 s old; a    *)
(* fetch that yields no data leaves options_cache as it was; /cache/clear  *)
(* and /cache/clear-options leave it empty, an entry appears only for the  *)
(* symbol of a chain request, and a chain request for a symbol without     *)
(* entry fetches: the next request after a clear, for any symbol, is a     *)
(* fresh fetch.                                                            *)
C28_CachedIsLastFresh ==
    /\ [](ServedFromCache =>
            /\ result.value.data = last_fresh[Upper(args.symbol)]
            /\ ("options_" \o Upper(args.symbol)) \in DOMAIN options_cache
            /\ options_cache["options_" \o Upper(args.symbol)][1] = result.value.data
            /\ now - options_cache["options_" \o Upper(args.symbol)][2] < 3600
            /\ "get_yahoo_options_data" \notin calls)
    /\ [][(ChainRequested' /\ result'.value.status # 200) =>
             options_cache' = options_cache]_vars
    /\ [][(op' \in {"clear_cache", "clear_options_cache"}) => options_cache' = <<>>]_vars
    /\ [][(ChainRequested' /\ ("options_" \o Upper(args'.symbol)) \notin DOMAIN options_cache) =>
             "get_yahoo_options_data" \in calls']_vars
    /\ [][\A k \in DOMAIN options_cache' \ DOMAIN options_cache :
             ChainRequested' /\ k = "options_" \o Upper(args'.symbol)]_vars

(* C28, its case: a chain served from an entry written after the clock had *)
(* moved, half of CACHE_DURATION old, while the other symbol has been      *)
(* fetched as well.                                                        *)
C28_Witness ==
    /\ ServedFromCache
    /\ options_cache["options_" \o Upper(args.symbol)][2] > 0
    /\ now - options_cache["options_" \o Upper(args.symbol)][2] = 1800
    /\ \A symbol \in ListedSymbols : last_fresh[symbol].kind = "chain"
    /\ \E symbol \in ListedSymbols : last_fresh[symbol] # result.value.data

-----------------------------------------------------------------------------
(* The cache of the predictions of app.py (PredictSpec).                   *)

(* C30, as claimed: a response of /predict/<symbol> marked cached carries  *)
(* a prediction generated for the symbol of the request and for the number *)
(* of days, capped at 365, that the request asks for.                      *)
C30_CachedMatchesRequest ==
    (op = "predict_stock" /\ result.value.status = 200 /\ result.value.cached) =>
        /\ result.value.data.symbol = Upper(args.symbol)
        /\ result.value.data.days = Min(Get(args.query, "days", 365), 365)

=============================================================================
